---------------------------- MODULE Spec2Model ----------------------------
(***************************************************************************)
(* Model of the plugin-engine orchestration layer of Ambiance:             *)
(* CarlaBackend and the CarlaVSTHost facade of                             *)
(* src/ambiance/src/ambiance/integrations/carla_host.py.                   *)
(*                                                                         *)
(* The native engine is an external collaborator.  It is modelled as an    *)
(* environment: a list of hosted plugins whose ids are their positions, a  *)
(* routing graph, and calls whose outcome (success, false, exception) is   *)
(* drawn from LoadBehaviours and UnloadBehaviours.                         *)
(***************************************************************************)
EXTENDS Integers, Sequences, FiniteSets, TLC

(***************************************************************************)
(* Bounds of the model.                                                    *)
(***************************************************************************)
\* the engine hosts at most this many plugins (a load is not started on a
\* full engine); more than one is only reached when a removal failed
MaxEnginePlugins == 2

\* idle threads that have not ended, at one time
MaxIdleThreads == 2

(***************************************************************************)
(* Optional values: None and Some(x) stand for Python's None and a value.  *)
(***************************************************************************)
None == << >>
Some(x) == << x >>
Get(o) == o[1]

(***************************************************************************)
(* Python dicts keep insertion order: a dict is a sequence of entries      *)
(* [k |-> key, v |-> value] with pairwise distinct keys.                   *)
(***************************************************************************)
EmptyDict == << >>
DictKeys(d) == { d[i].k : i \in 1..Len(d) }
DictHas(d, key) == \E i \in 1..Len(d) : d[i].k = key
DictIndex(d, key) == CHOOSE i \in 1..Len(d) : d[i].k = key
DictGet(d, key) == d[DictIndex(d, key)].v
\* d[key] = value: an existing key keeps its position, a new key is appended
DictSet(d, key, value) ==
    IF DictHas(d, key)
    THEN [d EXCEPT ![DictIndex(d, key)] = [k |-> key, v |-> value]]
    ELSE Append(d, [k |-> key, v |-> value])
\* d.pop(key, None)
DictPop(d, key) == SelectSeq(d, LAMBDA e : e.k # key)

(***************************************************************************)
(* The file system and the plugin binaries the engine can be asked to      *)
(* load.  Parameter values are in half units (1 stands for 0.5).           *)
(***************************************************************************)
Paths == { "/vst/SynthA.vst3", "/vst/FxB.DLL", "/vst/VocoderC.vst3", "/vst/Gone.vst3",
           "/vst/Readme.txt", "/vst/Lib.so" }

PathExists(path) == path # "/vst/Gone.vst3"

PathSuffix(path) ==
    CASE path = "/vst/SynthA.vst3" -> ".vst3"
      [] path = "/vst/FxB.DLL"     -> ".DLL"
      [] path = "/vst/VocoderC.vst3" -> ".vst3"
      [] path = "/vst/Gone.vst3"   -> ".vst3"
      [] path = "/vst/Readme.txt"  -> ".txt"
      [] path = "/vst/Lib.so"      -> ".so"

PathStem(path) ==
    CASE path = "/vst/SynthA.vst3" -> "SynthA"
      [] path = "/vst/FxB.DLL"     -> "FxB"
      [] path = "/vst/VocoderC.vst3" -> "VocoderC"
      [] path = "/vst/Gone.vst3"   -> "Gone"
      [] path = "/vst/Readme.txt"  -> "Readme"
      [] path = "/vst/Lib.so"      -> "Lib"

\* str.lower() on the suffixes and driver names of the model
Lower(s) ==
    CASE s = ".DLL"  -> ".dll"
      [] s = "JACK"  -> "jack"
      [] s = "ALSA"  -> "alsa"
      [] s = "Dummy" -> "dummy"
      [] s = "DUMMY" -> "dummy"
      [] s = "ASIO"  -> "asio"
      [] s = "PulseAudio" -> "pulseaudio"
      [] s = "PortAudio"  -> "portaudio"
      [] OTHER -> s

PLUGIN_VST2 == 5
PLUGIN_VST3 == 6
PLUGIN_IS_SYNTH == 4
PLUGIN_HAS_CUSTOM_UI == 8

\* bit test: bool(hints & flag) for a one-bit flag
HasBit(hints, flag) == (hints \div flag) % 2 = 1

\* What the engine reports for the binary at a path once it is hosted.
PluginBinary(path) ==
    IF path = "/vst/SynthA.vst3"
    THEN [ name |-> "SynthA", hints |-> 12, midi_ins |-> 1,
           audio_ins |-> 0, audio_outs |-> 2,
           params |-> << [ name |-> "A", symbol |-> "", unit |-> "",
                           def |-> 1, min |-> 0, max |-> 2, step |-> 1,
                           comment |-> "" ],
                         [ name |-> "B", symbol |-> "", unit |-> "dB",
                           def |-> 0, min |-> -24, max |-> 24, step |-> 1,
                           comment |-> "" ] >> ]
    ELSE IF path = "/vst/VocoderC.vst3"
    THEN [ name |-> "VocoderC", hints |-> 12, midi_ins |-> 1,
           audio_ins |-> 1, audio_outs |-> 3,
           params |-> << [ name |-> "mix", symbol |-> "", unit |-> "",
                           def |-> 1, min |-> 0, max |-> 2, step |-> 1,
                           comment |-> "" ] >> ]
    ELSE [ name |-> "FxB", hints |-> 0, midi_ins |-> 0,
           audio_ins |-> 2, audio_outs |-> 2,
           params |-> << [ name |-> "", symbol |-> "gain", unit |-> "",
                           def |-> 2, min |-> 0, max |-> 4, step |-> 1,
                           comment |-> "output gain" ] >> ]


(***************************************************************************)
(* State.                                                                  *)
(*   backend : the fields of the CarlaBackend object.  Its warnings field  *)
(*             holds the entries appended by the most recent operation:    *)
(*             the list only grows and the code never reads it back, so    *)
(*             the older prefix is left out.                               *)
(*   engine  : the native engine (environment): the routing graph outside  *)
(*             the plugins, the drivers it reports, whether it is open,    *)
(*             the hosted plugins in id order and its connections.         *)
(*   last    : the most recent public operation: its name, whether it      *)
(*             returned (ok) or raised, and the engine calls it issued.    *)
(*   sched   : the threads inside the note operations and unload: who      *)
(*             holds the lock of the facade (CarlaVSTHost._lock) and the   *)
(*             lock of the backend (CarlaBackend._lock), where each        *)
(*             thread stands, the operation it runs and the transient      *)
(*             part of it.  Where operations are taken as single steps     *)
(*             every thread is idle and both locks are free.               *)
(***************************************************************************)
VARIABLES backend, engine, last, sched

vars == << backend, engine, last, sched >>

(***************************************************************************)
(* Engine callback opcodes and port hint bits (_init_engine_constants).    *)
(***************************************************************************)
CB_PATCHBAY_CLIENT_ADDED == 20
CB_PATCHBAY_CLIENT_REMOVED == 21
CB_PATCHBAY_CLIENT_RENAMED == 22
CB_PATCHBAY_CLIENT_CHANGED == 23
CB_PATCHBAY_PORT_ADDED == 24
CB_PATCHBAY_PORT_REMOVED == 25
CB_PATCHBAY_PORT_CHANGED == 26
CB_PATCHBAY_CONNECTION_ADDED == 27
CB_PATCHBAY_CONNECTION_REMOVED == 28
PATCH_PORT_IS_INPUT == 1
PATCH_PORT_TYPE_AUDIO == 2
PATCH_PORT_TYPE_MIDI == 8

(***************************************************************************)
(* Graph cache handlers.  b is the backend record; each handler returns    *)
(* the backend record after the handler has run.                           *)
(***************************************************************************)
\* name or ""   /   name or old
OrElse(text, fallback) == IF text = "" THEN fallback ELSE text

HandlePatchbayClientAdded(b, client_id, icon, plugin_id, name) ==
    [b EXCEPT
       !.patch_clients = DictSet(@, client_id,
                                 [name |-> OrElse(name, ""), icon |-> icon,
                                  plugin_id |-> plugin_id]),
       !.plugin_patch_groups = IF plugin_id >= 0
                               THEN DictSet(@, plugin_id, client_id)
                               ELSE @,
       !.patch_update_event = TRUE]

\* the connection ids whose tuple has the client as source or as target
ConnIdsOfClient(b, client_id) ==
    { k \in DictKeys(b.patch_connection_ids) :
        LET key == DictGet(b.patch_connection_ids, k)
        IN  key[1] = client_id \/ key[3] = client_id }

HandlePatchbayClientRemoved(b, client_id) ==
    LET removed == DictHas(b.patch_clients, client_id)
        dead == ConnIdsOfClient(b, client_id)
        deadKeys == { DictGet(b.patch_connection_ids, k) : k \in dead }
    IN  [b EXCEPT
           !.patch_clients = DictPop(@, client_id),
           !.patch_ports = DictPop(@, client_id),
           !.plugin_patch_groups = SelectSeq(@, LAMBDA e : e.v # client_id),
           !.patch_connection_ids = SelectSeq(@, LAMBDA e : e.k \notin dead),
           !.patch_connections = @ \ deadKeys,
           !.patch_update_event = IF removed THEN TRUE ELSE @]

HandlePatchbayClientRenamed(b, client_id, name) ==
    [b EXCEPT
       !.patch_clients =
           IF ~DictHas(@, client_id)
           THEN DictSet(@, client_id,
                        [name |-> OrElse(name, ""), icon |-> 0,
                         plugin_id |-> -1])
           ELSE DictSet(@, client_id,
                        [DictGet(@, client_id) EXCEPT
                           !.name = OrElse(name, @)]),
       !.patch_update_event = TRUE]

HandlePatchbayClientChanged(b, client_id, icon, plugin_id) ==
    [b EXCEPT
       !.patch_clients =
           IF ~DictHas(@, client_id)
           THEN DictSet(@, client_id,
                        [name |-> "", icon |-> icon, plugin_id |-> plugin_id])
           ELSE DictSet(@, client_id,
                        [DictGet(@, client_id) EXCEPT
                           !.icon = icon, !.plugin_id = plugin_id]),
       !.plugin_patch_groups =
           IF plugin_id >= 0
           THEN DictSet(@, plugin_id, client_id)
           ELSE SelectSeq(@, LAMBDA e : e.v # client_id),
       !.patch_update_event = TRUE]

PortInfo(hints, group_id, name) ==
    [ name |-> OrElse(name, ""), hints |-> hints, group_id |-> group_id,
      is_input |-> HasBit(hints, PATCH_PORT_IS_INPUT),
      is_audio |-> HasBit(hints, PATCH_PORT_TYPE_AUDIO),
      is_midi  |-> HasBit(hints, PATCH_PORT_TYPE_MIDI) ]

\* the ports dict of a client, {} when the client has none
PortsOf(b, client_id) ==
    IF DictHas(b.patch_ports, client_id)
    THEN DictGet(b.patch_ports, client_id) ELSE EmptyDict

HandlePatchbayPortAdded(b, client_id, port_id, hints, group_id, name) ==
    [b EXCEPT
       !.patch_ports = DictSet(@, client_id,
                               DictSet(PortsOf(b, client_id), port_id,
                                       PortInfo(hints, group_id, name))),
       !.patch_update_event = TRUE]

HandlePatchbayPortRemoved(b, client_id, port_id) ==
    LET ports == PortsOf(b, client_id)
        rest  == DictPop(ports, port_id)
        dead  == { k \in DictKeys(b.patch_connection_ids) :
                     LET key == DictGet(b.patch_connection_ids, k)
                     IN  \/ key[1] = client_id /\ key[2] = port_id
                         \/ key[3] = client_id /\ key[4] = port_id }
        deadKeys == { DictGet(b.patch_connection_ids, k) : k \in dead }
    IN  IF ports = EmptyDict \/ ~DictHas(ports, port_id)
        THEN b
        ELSE [b EXCEPT
                !.patch_ports = IF rest = EmptyDict
                                THEN DictPop(@, client_id)
                                ELSE DictSet(@, client_id, rest),
                !.patch_connection_ids =
                    SelectSeq(@, LAMBDA e : e.k \notin dead),
                !.patch_connections = @ \ deadKeys,
                !.patch_update_event = TRUE]

\* payload: the pieces of value_str.split(":"), each Some(n) when int(piece)
\* is n and None when int(piece) raises ValueError
HandlePatchbayConnectionAdded(b, connection_id, payload) ==
    IF \E i \in 1..Len(payload) : payload[i] = None
    THEN b
    ELSE IF Len(payload) # 4
    THEN b
    ELSE LET key == [ i \in 1..4 |-> Get(payload[i]) ]
         IN  [b EXCEPT
                !.patch_connections = @ \cup { key },
                !.patch_connection_ids = DictSet(@, connection_id, key),
                !.patch_update_event = TRUE]

HandlePatchbayConnectionRemoved(b, connection_id) ==
    IF ~DictHas(b.patch_connection_ids, connection_id)
    THEN b
    ELSE LET key == DictGet(b.patch_connection_ids, connection_id)
         IN  [b EXCEPT
                !.patch_connection_ids = DictPop(@, connection_id),
                !.patch_connections = @ \ { key },
                !.patch_update_event = TRUE]

\* An event is the callback tuple (opcode, client_id, value1, value2, value3,
\* value_str); value_str is a name or, for a connection, its payload.
Event(opcode, client_id, v1, v2, v3, vs) ==
    [ opcode |-> opcode, client_id |-> client_id, value1 |-> v1,
      value2 |-> v2, value3 |-> v3, value_str |-> vs ]

HandleEngineCallback(b, ev) ==
    CASE ev.opcode = CB_PATCHBAY_CLIENT_ADDED ->
           HandlePatchbayClientAdded(b, ev.client_id, ev.value1, ev.value2,
                                     ev.value_str)
      [] ev.opcode = CB_PATCHBAY_CLIENT_REMOVED ->
           HandlePatchbayClientRemoved(b, ev.client_id)
      [] ev.opcode = CB_PATCHBAY_CLIENT_RENAMED ->
           HandlePatchbayClientRenamed(b, ev.client_id, ev.value_str)
      [] ev.opcode = CB_PATCHBAY_CLIENT_CHANGED ->
           HandlePatchbayClientChanged(b, ev.client_id, ev.value1, ev.value2)
      [] ev.opcode = CB_PATCHBAY_PORT_ADDED ->
           HandlePatchbayPortAdded(b, ev.client_id, ev.value1, ev.value2,
                                   ev.value3, ev.value_str)
      [] ev.opcode = CB_PATCHBAY_PORT_REMOVED ->
           HandlePatchbayPortRemoved(b, ev.client_id, ev.value1)
      [] ev.opcode = CB_PATCHBAY_PORT_CHANGED ->
           HandlePatchbayPortAdded(b, ev.client_id, ev.value1, ev.value2,
                                   ev.value3, ev.value_str)
      [] ev.opcode = CB_PATCHBAY_CONNECTION_ADDED ->
           HandlePatchbayConnectionAdded(b, ev.client_id, ev.value_str)
      [] ev.opcode = CB_PATCHBAY_CONNECTION_REMOVED ->
           HandlePatchbayConnectionRemoved(b, ev.client_id)
      [] OTHER -> b

\* the callbacks of a sequence of events, delivered in order
RECURSIVE DeliverAll(_, _)
DeliverAll(b, events) ==
    IF events = << >> THEN b
    ELSE DeliverAll(HandleEngineCallback(b, Head(events)), Tail(events))


(***************************************************************************)
(* The native engine (environment).                                        *)
(*                                                                         *)
(* A state s of an operation in progress is [b, e, t]: the backend record, *)
(* the engine record and the transient part t = [calls, r, exc, ret,       *)
(* nrefresh]: the engine calls issued so far, the outcome of the last      *)
(* engine call ("true", "false" or "raise"), the exception the operation   *)
(* has raised (None while it runs normally), its return value and the      *)
(* number of patchbay refreshes it has requested.  errors and success are  *)
(* the local variables of that name of the routine in progress.  The log   *)
(* of calls also holds the stop of the idle thread.                        *)
(***************************************************************************)
Envs == { "studio", "audio_only", "bare" }

\* The clients outside the plugins: an audio device and a MIDI keyboard.
ExternalClients(env) ==
    LET system == [ id |-> 1, name |-> "system", icon |-> 0,
                    ports |-> << [ id |-> 1, hints |-> 3, name |-> "playback_1" ],
                                 [ id |-> 2, hints |-> 3, name |-> "playback_2" ],
                                 [ id |-> 3, hints |-> 2, name |-> "capture_1" ] >> ]
        keys   == [ id |-> 2, name |-> "Virtual MIDI Keyboard", icon |-> 0,
                    ports |-> << [ id |-> 1, hints |-> 8, name |-> "midi out" ] >> ]
        \* a second keyboard and a second audio device, plugged in later: the
        \* same names under higher group ids
        keys2  == [ id |-> 7, name |-> "Virtual MIDI Keyboard", icon |-> 0,
                    ports |-> << [ id |-> 1, hints |-> 8, name |-> "midi out" ] >> ]
        system2 == [ id |-> 8, name |-> "system", icon |-> 0,
                     ports |-> << [ id |-> 1, hints |-> 3, name |-> "playback_1" ] >> ]
    IN  CASE env = "studio"     -> << system, keys >>
          [] env = "twin"       -> << system, keys, keys2, system2 >>
          [] env = "audio_only" -> << system >>
          [] OTHER              -> << >>

\* the engine numbers its groups from 1: the plugins follow the external
\* clients of the fullest environment
FirstPluginGroup == Len(ExternalClients("studio")) + 1

\* the ports the engine gives the group of a hosted plugin: audio inputs,
\* audio outputs, then one MIDI input if the plugin takes MIDI
PluginPorts(bin) ==
    [ i \in 1..bin.audio_ins |->
        [ id |-> i, hints |-> 3, name |-> "input" ] ] \o
    [ i \in 1..bin.audio_outs |->
        [ id |-> bin.audio_ins + i, hints |-> 2, name |-> "output" ] ] \o
    ( IF bin.midi_ins > 0
      THEN << [ id |-> bin.audio_ins + bin.audio_outs + 1, hints |-> 9,
                name |-> "events-in" ] >>
      ELSE << >> )

\* an engine call is entered in the log, then its outcome
Log(s, call, a, p) ==
    [s EXCEPT !.t.calls = Append(@, [call |-> call, a |-> a, p |-> p,
                                     r |-> ""])]

Result(s, r) == [s EXCEPT !.t.r = r, !.t.calls[Len(s.t.calls)].r = r]

HasPlugin(e, id) == id >= 0 /\ id < Len(e.plugins)

FreeGroup(e) ==
    CHOOSE g \in FirstPluginGroup..(FirstPluginGroup + Len(e.plugins)) :
        /\ \A i \in 1..Len(e.plugins) : e.plugins[i].group # g
        /\ \A h \in FirstPluginGroup..(g - 1) :
              \E i \in 1..Len(e.plugins) : e.plugins[i].group = h

FreeConnId(e) ==
    CHOOSE c \in 1..(Len(e.conns) + 1) :
        /\ ~DictHas(e.conns, c)
        /\ \A h \in 1..(c - 1) : DictHas(e.conns, h)

\* the engine's connections that do not touch any of the groups
ConnsWithout(e, groups) ==
    SelectSeq(e.conns, LAMBDA c : c.v[1] \notin groups /\ c.v[3] \notin groups)

EngineInit(s, driver, eb) ==
    LET s1 == Log(s, "engine_init", << >>, driver) IN
    IF driver \in eb.init_raise THEN Result(s1, "raise")
    ELSE IF driver \in eb.init_false \/ s.e.open
    THEN Result(s1, "false")
    ELSE Result([s1 EXCEPT !.e.open = TRUE], "true")

EngineClose(s, eb) ==
    LET s1 == Log(s, "engine_close", << >>, "") IN
    IF eb.close = "raise" THEN Result(s1, "raise")
    ELSE Result([s1 EXCEPT !.e.open = FALSE, !.e.plugins = << >>,
                           !.e.conns = EmptyDict], "true")

AddPlugin(s, path, eb) ==
    LET s1 == Log(s, "add_plugin", << >>, path)
        bin == PluginBinary(path)
        inst == [ path |-> path, group |-> FreeGroup(s.e),
                  values |-> [ i \in 1..Len(bin.params) |-> bin.params[i].def ] ]
    IN  CASE eb.add = "raise" -> Result(s1, "raise")
          [] eb.add = "false" -> Result(s1, "false")
          [] OTHER ->
               Result([s1 EXCEPT !.e.plugins = Append(@, inst)], "true")

RemovePlugin(s, id, eb) ==
    LET s1 == Log(s, "remove_plugin", << id >>, "") IN
    CASE eb.remove = "raise" -> Result(s1, "raise")
      [] eb.remove = "false" \/ ~HasPlugin(s.e, id) ->
           Result(s1, "false")
      [] OTHER ->
           LET g == s.e.plugins[id + 1].group IN
           Result([s1 EXCEPT
                     !.e.plugins = [ i \in 1..(Len(@) - 1) |->
                                       IF i < id + 1 THEN @[i] ELSE @[i + 1] ],
                     !.e.conns = ConnsWithout(s.e, { g })], "true")

RemoveAllPlugins(s, eb) ==
    LET s1 == Log(s, "remove_all_plugins", << >>, "")
        gs == { s.e.plugins[i].group : i \in 1..Len(s.e.plugins) }
    IN  CASE eb.remove_all = "raise" -> Result(s1, "raise")
          [] eb.remove_all = "false" ->
               Result(s1, "false")
          [] OTHER ->
               Result([s1 EXCEPT !.e.plugins = << >>,
                                 !.e.conns = ConnsWithout(s.e, gs)], "true")

SetActive(s, id, eb) ==
    LET s1 == Log(s, "set_active", << id >>, "") IN
    IF eb.active = "raise" THEN Result(s1, "raise")
    ELSE IF ~HasPlugin(s.e, id) THEN Result(s1, "false")
    ELSE Result(s1, "true")

Clamp(v, lo, hi) == IF v < lo THEN lo ELSE IF v > hi THEN hi ELSE v

SetParameterValue(s, id, param_id, value, eb) ==
    LET s1 == Log(s, "set_parameter_value", << id, param_id, value >>, "") IN
    IF eb.setparam = "raise" THEN Result(s1, "raise")
    ELSE IF ~HasPlugin(s.e, id) THEN Result(s1, "false")
    ELSE LET ps == PluginBinary(s.e.plugins[id + 1].path).params IN
         IF param_id < 0 \/ param_id >= Len(ps) THEN Result(s1, "false")
         ELSE Result([s1 EXCEPT !.e.plugins[id + 1].values[param_id + 1] =
                                  Clamp(value, ps[param_id + 1].min,
                                        ps[param_id + 1].max)], "true")

PatchbayConnect(s, key, eb) ==
    LET s1 == Log(s, "patchbay_connect", key, "") IN
    CASE eb.connect = "raise" -> Result(s1, "raise")
      [] \/ eb.connect = "false"
         \/ ~s.e.open
         \/ \E i \in 1..Len(s.e.conns) : s.e.conns[i].v = key ->
           Result(s1, "false")
      [] OTHER ->
           Result([s1 EXCEPT !.e.conns = DictSet(@, FreeConnId(s.e), key)],
                  "true")

ShowCustomUi(s, id, visible, eb) ==
    LET s1 == Log(s, "show_custom_ui", << id, IF visible THEN 1 ELSE 0 >>, "") IN
    IF eb.ui = "raise" THEN Result(s1, "raise") ELSE Result(s1, "true")

\* send_midi_note(plugin_id, channel, note, velocity): the engine queues the
\* event for the plugin with that id
SendMidiNote(s, id, note, value, eb) ==
    LET s1 == Log(s, "send_midi_note", << id, 0, note, value >>, "") IN
    IF eb.send = "raise" THEN Result(s1, "raise")
    ELSE IF ~HasPlugin(s.e, id) THEN Result(s1, "false")
    ELSE Result(s1, "true")

\* queries
\* get_last_error(): the text the engine reports for the failure of the
\* operation in progress
GetLastError(eb) == eb.error

GetParameterCount(e, id) ==
    IF HasPlugin(e, id) THEN Len(PluginBinary(e.plugins[id + 1].path).params)
    ELSE 0

GetPluginInfo(e, id) ==
    IF HasPlugin(e, id)
    THEN [ name  |-> PluginBinary(e.plugins[id + 1].path).name,
           hints |-> PluginBinary(e.plugins[id + 1].path).hints ]
    ELSE [ name |-> "", hints |-> 0 ]

GetMidiIns(e, id) ==
    IF HasPlugin(e, id) THEN PluginBinary(e.plugins[id + 1].path).midi_ins
    ELSE 0

\* the payload "a:b:c:d" of a connection, split at ":" and parsed
ConnectionPayload(key) == [ i \in 1..4 |-> Some(key[i]) ]

\* The events of a full graph replay: clients, then ports, then connections.
ReplayClients(e) ==
    LET ext == ExternalClients(e.env) IN
    [ i \in 1..Len(ext) |->
        Event(CB_PATCHBAY_CLIENT_ADDED, ext[i].id, ext[i].icon, -1, 0,
              ext[i].name) ] \o
    [ i \in 1..Len(e.plugins) |->
        Event(CB_PATCHBAY_CLIENT_ADDED, e.plugins[i].group, 0, i - 1, 0,
              PluginBinary(e.plugins[i].path).name) ]

RECURSIVE Flatten(_)
Flatten(seqs) ==
    IF seqs = << >> THEN << >> ELSE Head(seqs) \o Flatten(Tail(seqs))

PortEvents(client_id, ports) ==
    [ j \in 1..Len(ports) |->
        Event(CB_PATCHBAY_PORT_ADDED, client_id, ports[j].id, ports[j].hints,
              0, ports[j].name) ]

ReplayPorts(e) ==
    LET ext == ExternalClients(e.env) IN
    Flatten([ i \in 1..Len(ext) |-> PortEvents(ext[i].id, ext[i].ports) ]) \o
    Flatten([ i \in 1..Len(e.plugins) |->
                PortEvents(e.plugins[i].group,
                           PluginPorts(PluginBinary(e.plugins[i].path))) ])

ReplayConnections(e) ==
    [ i \in 1..Len(e.conns) |->
        Event(CB_PATCHBAY_CONNECTION_ADDED, e.conns[i].k, 0, 0, 0,
              ConnectionPayload(e.conns[i].v)) ]

\* The callbacks that arrive while the caller waits after its n-th refresh
\* request of the operation (eb.deliver): the whole replay, nothing, only
\* the clients, or nothing the first time and the whole replay afterwards.
\* Under "replay" the replay arrives in full, and the callbacks of the
\* connects that follow are late: they arrive after the operation.
Delivered(e, eb, n) ==
    CASE eb.deliver = "none"    -> << >>
      [] eb.deliver = "clients" -> ReplayClients(e)
      [] eb.deliver = "late" /\ n <= 1 -> << >>
      [] OTHER -> ReplayClients(e) \o ReplayPorts(e) \o ReplayConnections(e)


(***************************************************************************)
(* Errors and warnings.                                                    *)
(***************************************************************************)
Error(type, msg, text, detail) ==
    [ type |-> type, msg |-> msg, text |-> text, detail |-> detail ]

CarlaHostError(msg, text, detail) == Error("CarlaHostError", msg, text, detail)

\* an exception raised by an engine call, passed on as it is
EngineFault(call) == Error("EngineException", call, "", << >>)

Raise(s, err) == [s EXCEPT !.t.exc = Some(err)]

Raised(s) == s.t.exc # None

Warn(s, text) == [s EXCEPT !.b.warnings = Append(@, text)]

\* try: <engine call> except Exception: self.warnings.append(text)
WarnIfRaised(s, text) == IF s.t.r = "raise" THEN Warn(s, text) ELSE s

(***************************************************************************)
(* Engine lifecycle.                                                       *)
(*                                                                         *)
(* Exceptions propagate: a step applied to an operation that has already   *)
(* raised (Raised(s)) leaves it as it is.                                  *)
(***************************************************************************)
PREFERRED_DRIVERS == << "JACK", "ALSA", "PulseAudio", "Dummy", "PortAudio" >>

\* str.strip() on the driver names of the model
Strip(s) ==
    CASE s = " Dummy " -> "Dummy"
      [] s = "  "      -> ""
      [] OTHER         -> s

\* _clean_driver_name on an optional name: None, or the stripped name, or
\* None when nothing is left
CleanDriverName(name) ==
    IF name = None THEN None
    ELSE IF Strip(Get(name)) = "" THEN None ELSE Some(Strip(Get(name)))

\* keep the first of the names that are equal ignoring case
RECURSIVE DedupLower(_, _)
DedupLower(names, seen) ==
    IF names = << >> THEN << >>
    ELSE IF Lower(Head(names)) \in seen
    THEN DedupLower(Tail(names), seen)
    ELSE << Head(names) >> \o
         DedupLower(Tail(names), seen \cup { Lower(Head(names)) })

NormaliseDriverNames(names) ==
    DedupLower(
      SelectSeq([ i \in 1..Len(names) |-> Strip(names[i]) ],
                LAMBDA n : n # ""),
      { })

ComposeDriverOrder(b) ==
    DedupLower(b.forced_driver \o b.user_preferred_drivers \o PREFERRED_DRIVERS,
               { })

AvailableDrivers(e) == DedupLower(e.drivers, { })

InSeq(x, seq) == \E i \in 1..Len(seq) : seq[i] = x

StartIdleThread(b) ==
    IF b.idle_thread THEN b ELSE [b EXCEPT !.idle_thread = TRUE]

\* _stop_idle_thread: the stop event is set and the thread joined for at most
\* a second; whether or not it has exited by then (eb.join), it is no longer
\* registered
StopIdleThread(s, eb) ==
    IF ~s.b.idle_thread THEN s
    ELSE Result(Log([s EXCEPT !.b.idle_thread = FALSE],
                    "stop_idle_thread", << >>, ""),
                IF eb.join = "timeout" THEN "timeout" ELSE "true")

\* the order of the attempts as it would be if the preferred drivers came
\* ahead of the forced one
AttemptOrderPreferredFirst(b, available) ==
    LET forced == IF b.forced_driver # None THEN b.forced_driver ELSE << >>
        pref   == SelectSeq(b.preferred_drivers,
                            LAMBDA d : InSeq(d, available) /\ ~InSeq(d, forced))
        rest   == SelectSeq(available,
                            LAMBDA d : ~InSeq(d, forced) /\ ~InSeq(d, pref))
    IN  pref \o forced \o rest

\* the drivers _ensure_engine tries, in order
AttemptOrder(b, available) ==
    LET forced == IF b.forced_driver # None THEN b.forced_driver ELSE << >>
        pref   == SelectSeq(b.preferred_drivers,
                            LAMBDA d : InSeq(d, available) /\ ~InSeq(d, forced))
        rest   == SelectSeq(available,
                            LAMBDA d : ~InSeq(d, forced) /\ ~InSeq(d, pref))
    IN  forced \o pref \o rest

\* the loop over the candidates: t.ret holds the driver that initialised
RECURSIVE TryDrivers(_, _, _, _)
TryDrivers(s, candidates, errors, eb) ==
    IF candidates = << >>
    THEN [s EXCEPT !.t.ret = None, !.t.errors = errors]
    ELSE LET s1 == EngineInit(s, Head(candidates), eb) IN
         IF s1.t.r = "true"
         THEN [s1 EXCEPT !.t.ret = Some(Head(candidates)), !.t.errors = errors]
         ELSE TryDrivers(s1, Tail(candidates),
                         Append(errors,
                                [ driver |-> Head(candidates),
                                  message |-> IF s1.t.r = "raise"
                                              THEN "engine_init raised"
                                              ELSE GetLastError(eb) ]),
                         eb)

\* the end of _ensure_engine as it would be if the failure of every driver
\* were passed over in silence
EngineStartedOrNot(s) ==
    IF s.t.ret = None THEN s
    ELSE [s EXCEPT !.b.driver_name = s.t.ret,
                   !.b.engine_running = TRUE,
                   !.b.idle_thread = StartIdleThread(s.b).idle_thread,
                   !.t.ret = None]

\* _ensure_engine after the loop over the candidates
EngineStarted(s) ==
    IF s.t.ret = None
    THEN Raise(s, CarlaHostError("Failed to initialise Carla engine",
                                 "", s.t.errors))
    ELSE [s EXCEPT !.b.driver_name = s.t.ret,
                   !.b.engine_running = TRUE,
                   !.b.idle_thread = StartIdleThread(s.b).idle_thread,
                   !.t.ret = None]

\* _ensure_engine as it would be if a forced driver that the engine does not
\* report were passed over and the other drivers tried
EnsureEngineWithFallback(s, eb) ==
    IF ~s.b.available
    THEN Raise(s, CarlaHostError("Carla backend is not available", "", << >>))
    ELSE IF s.b.engine_running THEN s
    ELSE
    LET s0 == [s EXCEPT !.b.engine_configured = TRUE]
        available == AvailableDrivers(s.e)
    IN  IF available = << >>
        THEN Raise(s0, CarlaHostError("No usable Carla audio drivers", "", << >>))
        ELSE EngineStarted(
               TryDrivers(s0, SelectSeq(AttemptOrder(s.b, available),
                                        LAMBDA d : InSeq(d, available)),
                          << >>, eb))

EnsureEngine(s, eb) ==
    IF ~s.b.available
    THEN Raise(s, CarlaHostError("Carla backend is not available", "", << >>))
    ELSE IF s.b.engine_running THEN s
    ELSE
    LET s0 == [s EXCEPT !.b.engine_configured = TRUE]
        available == AvailableDrivers(s.e)
    IN  IF available = << >>
        THEN Raise(s0, CarlaHostError("No usable Carla audio drivers", "", << >>))
        ELSE IF s.b.forced_driver # None /\ ~InSeq(Get(s.b.forced_driver), available)
        THEN Raise(s0, CarlaHostError("Requested audio driver not available",
                                      Get(s.b.forced_driver), available))
        ELSE EngineStarted(
               TryDrivers(s0, AttemptOrder(s.b, available), << >>, eb))

(***************************************************************************)
(* Graph refresh and target selection.                                     *)
(***************************************************************************)
\* patchbay_refresh(False) and the wait for the replay that follows it
PatchbayRefresh(s, eb) ==
    IF eb.refresh = "raise"
    THEN Warn(Result(s, "raise"), "Failed to refresh Carla patchbay")
    ELSE IF ~s.b.engine_running THEN Result(s, "true")
    ELSE [Result(s, "true") EXCEPT
            !.b = DeliverAll(@, Delivered(s.e, eb, s.t.nrefresh))]

RefreshPatchbayState(s, eb) ==
    PatchbayRefresh(
      Log([s EXCEPT !.b.patch_clients = EmptyDict,
                    !.b.patch_ports = EmptyDict,
                    !.b.patch_connections = { },
                    !.b.patch_connection_ids = EmptyDict,
                    !.b.plugin_patch_groups = EmptyDict,
                    !.b.patch_update_event = FALSE,
                    !.t.nrefresh = @ + 1],
          "patchbay_refresh", << >>, ""),
      eb)

\* the words of the scoring rules that occur in a lower-cased name
NameWords(name) ==
    CASE name = "playback_1" -> { "playback" }
      [] name = "playback_2" -> { "playback" }
      [] name = "Virtual MIDI Keyboard" -> { "midi", "keyboard" }
      [] name = "midi out" -> { "midi", "out" }
      [] name = "output" -> { "out", "output" }
      [] OTHER -> { }

\* word in f"{client name} {port name}".lower()
InName(word, client, port) == word \in NameWords(client.name) \cup NameWords(port.name)

\* self._patch_clients.get(group_id, {}) read with its .get defaults
ClientOrDefault(b, group_id) ==
    IF DictHas(b.patch_clients, group_id) THEN DictGet(b.patch_clients, group_id)
    ELSE [ name |-> "", icon |-> 0, plugin_id |-> -1 ]

MidiSourceSortKey(client, port, group_id) ==
    LET score ==
          (IF client.plugin_id < 0 THEN 40 ELSE 0)
        + (IF InName("carla", client, port) \/ InName("rack", client, port)
              \/ InName("host", client, port) THEN 20 ELSE 0)
        + (IF InName("midi", client, port) THEN 10 ELSE 0)
        + (IF InName("out", client, port) \/ InName("output", client, port)
           THEN 5 ELSE 0)
        + (IF InName("keyboard", client, port) THEN 2 ELSE 0)
        - (IF client.plugin_id >= 0 THEN 10 ELSE 0)
    IN  << score, -group_id >>

AudioTargetSortKey(client, port, group_id) ==
    LET score ==
          (IF InName("audio", client, port) \/ InName("speaker", client, port)
           THEN 30 ELSE 0)
        + (IF InName("playback", client, port) \/ InName("output", client, port)
              \/ InName("out", client, port) THEN 20 ELSE 0)
        + (IF InName("carla", client, port) \/ InName("master", client, port)
           THEN 10 ELSE 0)
    IN  << score, -group_id >>

\* tuple comparison k1 > k2
KeyGreater(k1, k2) == k1[1] > k2[1] \/ (k1[1] = k2[1] /\ k1[2] > k2[2])

\* list.sort(key, reverse=True): descending and stable; entries carry .key
RECURSIVE InsertDesc(_, _)
InsertDesc(sorted, x) ==
    IF sorted = << >> THEN << x >>
    ELSE IF KeyGreater(x.key, Head(sorted).key)
    THEN << x >> \o sorted
    ELSE << Head(sorted) >> \o InsertDesc(Tail(sorted), x)

RECURSIVE SortDesc(_, _)
SortDesc(done, todo) ==
    IF todo = << >> THEN done
    ELSE SortDesc(InsertDesc(done, Head(todo)), Tail(todo))

\* every (group, port, client, port info) of the cache, in dict order
AllPorts(b) ==
    Flatten([ i \in 1..Len(b.patch_ports) |->
        [ j \in 1..Len(b.patch_ports[i].v) |->
            [ group |-> b.patch_ports[i].k,
              port |-> b.patch_ports[i].v[j].k,
              client |-> ClientOrDefault(b, b.patch_ports[i].k),
              info |-> b.patch_ports[i].v[j].v ] ] ])

\* return [(group, port) for ... in candidates]
Pairs(sorted) == [ i \in 1..Len(sorted) |-> sorted[i].pair ]

MidiKeyed(cands) ==
    [ i \in 1..Len(cands) |->
        [ pair |-> << cands[i].group, cands[i].port >>,
          key |-> MidiSourceSortKey(cands[i].client, cands[i].info,
                                    cands[i].group) ] ]

AudioKeyed(cands) ==
    [ i \in 1..Len(cands) |->
        [ pair |-> << cands[i].group, cands[i].port >>,
          key |-> AudioTargetSortKey(cands[i].client, cands[i].info,
                                     cands[i].group) ] ]

SelectMidiSources(b) ==
    Pairs(SortDesc(<< >>, MidiKeyed(
      SelectSeq(AllPorts(b),
                LAMBDA c : ~c.info.is_input /\ c.info.is_midi))))

SelectAudioTargets(b) ==
    Pairs(SortDesc(<< >>, AudioKeyed(
      SelectSeq(AllPorts(b),
                LAMBDA c : /\ ~(c.client.plugin_id >= 0)
                           /\ c.info.is_input /\ c.info.is_audio))))

(***************************************************************************)
(* Auto-routing.                                                           *)
(***************************************************************************)
\* _wait_for_engine_idle after successful connects: the callbacks of the
\* engine's connections arrive, unless callbacks are held back
WaitForEngineIdle(s, eb) ==
    IF s.b.engine_running /\ eb.deliver \in { "full", "late" }
    THEN [s EXCEPT !.b = DeliverAll(@, ReplayConnections(s.e))]
    ELSE s

\* [pid for pid, pdata in ports.items() ...]: the keys of dict entries
PortIds(ports) == [ i \in 1..Len(ports) |-> ports[i].k ]

\* ports.get(client, {}).get(port, {}).get("is_audio")
PortIsAudio(b, client_id, port_id) ==
    /\ DictHas(PortsOf(b, client_id), port_id)
    /\ DictGet(PortsOf(b, client_id), port_id).is_audio

\* one patchbay_connect of a routing loop: success is noted, an exception
\* becomes a warning, a false result is passed over
ConnectOutcome(c, text) ==
    CASE c.t.r = "true"  -> [c EXCEPT !.t.success = TRUE]
      [] c.t.r = "raise" -> Warn(c, text)
      [] OTHER -> c

\* the plugin's group in the cache, -1 when it is not there
PluginGroup(b) ==
    IF b.plugin_id # None /\ DictHas(b.plugin_patch_groups, Get(b.plugin_id))
    THEN DictGet(b.plugin_patch_groups, Get(b.plugin_id))
    ELSE -1

MidiInputs(b) ==
    IF PluginGroup(b) = -1 THEN << >>
    ELSE PortIds(SelectSeq(PortsOf(b, PluginGroup(b)),
                           LAMBDA e : e.v.is_input /\ e.v.is_midi))

AudioOutputs(b) ==
    IF PluginGroup(b) = -1 THEN << >>
    ELSE PortIds(SelectSeq(PortsOf(b, PluginGroup(b)),
                           LAMBDA e : ~e.v.is_input /\ e.v.is_audio))

\* The "for attempt in range(3)" loop of _ensure_midi_routing with n attempts
\* left.  t.ret is Some("routed") when a connection into the group was found,
\* Some("found") when the group and its MIDI inputs are known, None when the
\* loop ran out.
RECURSIVE MidiProbe(_, _, _)
MidiProbe(s, n, eb) ==
    IF n = 0 THEN [s EXCEPT !.t.ret = None]
    ELSE IF /\ PluginGroup(s.b) # -1
            /\ \E conn \in s.b.patch_connections : conn[3] = PluginGroup(s.b)
    THEN [s EXCEPT !.b.midi_routed = TRUE, !.t.ret = Some("routed")]
    ELSE IF PluginGroup(s.b) # -1 /\ MidiInputs(s.b) # << >>
    THEN [s EXCEPT !.t.ret = Some("found")]
    ELSE MidiProbe(RefreshPatchbayState(s, eb), n - 1, eb)

\* for port_id, _ in midi_inputs
RECURSIVE MidiConnectPorts(_, _, _, _, _)
MidiConnectPorts(s, source, inputs, group, eb) ==
    IF inputs = << >> THEN s
    ELSE MidiConnectPorts(
           IF << source[1], source[2], group, Head(inputs) >>
                \in s.b.patch_connections
           THEN s
           ELSE ConnectOutcome(
                  PatchbayConnect(s, << source[1], source[2], group,
                                        Head(inputs) >>, eb),
                  "Failed to connect MIDI port"),
           source, Tail(inputs), group, eb)

\* for source_group, source_port in sources
RECURSIVE MidiConnectSources(_, _, _, _, _)
MidiConnectSources(s, sources, inputs, group, eb) ==
    IF sources = << >> THEN s
    ELSE IF Head(sources)[1] = group
    THEN MidiConnectSources(s, Tail(sources), inputs, group, eb)
    ELSE MidiConnectSources(MidiConnectPorts(s, Head(sources), inputs, group, eb),
                            Tail(sources), inputs, group, eb)

\* _ensure_midi_routing after its connect loops
MidiRouted(s, eb) ==
    IF s.t.success
    THEN [WaitForEngineIdle(s, eb) EXCEPT !.b.midi_routed = TRUE,
                                          !.b.midi_warning_emitted = FALSE]
    ELSE IF ~s.b.midi_warning_emitted
    THEN [Warn(s, "Unable to find an internal MIDI source") EXCEPT
            !.b.midi_warning_emitted = TRUE]
    ELSE s

\* _ensure_midi_routing after its attempt loop
MidiRoute(probe, eb) ==
    IF probe.t.ret # Some("found") \/ SelectMidiSources(probe.b) = << >>
    THEN [probe EXCEPT !.t.ret = None, !.t.success = FALSE]
    ELSE MidiRouted(
           MidiConnectSources(
             [probe EXCEPT !.t.ret = None, !.t.success = FALSE],
             SelectMidiSources(probe.b), MidiInputs(probe.b),
             PluginGroup(probe.b), eb),
           eb)

EnsureMidiRouting(s, eb) ==
    IF s.b.midi_routed THEN s
    ELSE IF s.b.plugin_id = None \/ ~s.b.supports_midi THEN s
    ELSE MidiRoute(MidiProbe(s, 3, eb), eb)

\* The attempt loop of _ensure_audio_routing, as MidiProbe.
RECURSIVE AudioProbe(_, _, _)
AudioProbe(s, n, eb) ==
    IF n = 0 THEN [s EXCEPT !.t.ret = None]
    ELSE IF /\ PluginGroup(s.b) # -1
            /\ AudioOutputs(s.b) # << >>
            /\ \E conn \in s.b.patch_connections :
                  /\ conn[1] = PluginGroup(s.b)
                  /\ PortIsAudio(s.b, conn[3], conn[4])
    THEN [s EXCEPT !.b.audio_routed = TRUE, !.t.ret = Some("routed")]
    ELSE IF PluginGroup(s.b) # -1 /\ AudioOutputs(s.b) # << >>
    THEN [s EXCEPT !.t.ret = Some("found")]
    ELSE AudioProbe(RefreshPatchbayState(s, eb), n - 1, eb)

\* list.sort() of port ids, ascending
RECURSIVE InsertAsc(_, _)
InsertAsc(sorted, x) ==
    IF sorted = << >> THEN << x >>
    ELSE IF x < Head(sorted) THEN << x >> \o sorted
    ELSE << Head(sorted) >> \o InsertAsc(Tail(sorted), x)

RECURSIVE SortAsc(_, _)
SortAsc(done, todo) ==
    IF todo = << >> THEN done
    ELSE SortAsc(InsertAsc(done, Head(todo)), Tail(todo))

Min(a, b) == IF a < b THEN a ELSE b

\* for index in range(connections), from index (1-based) on
RECURSIVE AudioConnect(_, _, _, _, _, _, _)
AudioConnect(s, index, connections, outs, targets, group, eb) ==
    IF index > connections THEN s
    ELSE AudioConnect(
           IF << group, outs[index], targets[index][1], targets[index][2] >>
                \in s.b.patch_connections
           THEN s
           ELSE ConnectOutcome(
                  PatchbayConnect(s, << group, outs[index], targets[index][1],
                                        targets[index][2] >>, eb),
                  "Failed to connect audio port"),
           index + 1, connections, outs, targets, group, eb)

\* the end of _ensure_audio_routing as it would be if the routine entered
\* the connections it made into the cache itself
AudioRoutedRecorded(s, eb) ==
    IF s.t.success
    THEN [WaitForEngineIdle(s, eb) EXCEPT
            !.b.audio_routed = TRUE,
            !.b.audio_warning_emitted = FALSE,
            !.b.patch_connections =
                @ \cup { s.t.calls[i].a :
                           i \in { j \in 1..Len(s.t.calls) :
                                     /\ s.t.calls[j].call = "patchbay_connect"
                                     /\ s.t.calls[j].r = "true" } }]
    ELSE IF ~s.b.audio_warning_emitted
    THEN [Warn(s, "Unable to connect plugin audio outputs") EXCEPT
            !.b.audio_warning_emitted = TRUE]
    ELSE s

\* _ensure_audio_routing after its connect loop
AudioRouted(s, eb) ==
    IF s.t.success
    THEN [WaitForEngineIdle(s, eb) EXCEPT !.b.audio_routed = TRUE,
                                          !.b.audio_warning_emitted = FALSE]
    ELSE IF ~s.b.audio_warning_emitted
    THEN [Warn(s, "Unable to connect plugin audio outputs") EXCEPT
            !.b.audio_warning_emitted = TRUE]
    ELSE s

\* the connect loop without the limit of two channels
AudioRouteEveryOutput(probe, eb) ==
    IF probe.t.ret # Some("found")
    THEN [probe EXCEPT !.t.ret = None, !.t.success = FALSE]
    ELSE IF SelectAudioTargets(probe.b) = << >>
    THEN IF ~probe.b.audio_warning_emitted
         THEN [Warn(probe, "No audio output target found") EXCEPT
                 !.b.audio_warning_emitted = TRUE,
                 !.t.ret = None, !.t.success = FALSE]
         ELSE [probe EXCEPT !.t.ret = None, !.t.success = FALSE]
    ELSE AudioRouted(
           AudioConnect(
             [probe EXCEPT !.t.ret = None, !.t.success = FALSE], 1,
             Min(Len(AudioOutputs(probe.b)),
                 Len(SelectAudioTargets(probe.b))),
             SortAsc(<< >>, AudioOutputs(probe.b)),
             SelectAudioTargets(probe.b), PluginGroup(probe.b), eb),
           eb)

\* _ensure_audio_routing after its attempt loop
AudioRoute(probe, eb) ==
    IF probe.t.ret # Some("found")
    THEN [probe EXCEPT !.t.ret = None, !.t.success = FALSE]
    ELSE IF SelectAudioTargets(probe.b) = << >>
    THEN IF ~probe.b.audio_warning_emitted
         THEN [Warn(probe, "No audio output target found") EXCEPT
                 !.b.audio_warning_emitted = TRUE,
                 !.t.ret = None, !.t.success = FALSE]
         ELSE [probe EXCEPT !.t.ret = None, !.t.success = FALSE]
    ELSE AudioRouted(
           AudioConnect(
             [probe EXCEPT !.t.ret = None, !.t.success = FALSE], 1,
             Min(Min(Len(AudioOutputs(probe.b)),
                     Len(SelectAudioTargets(probe.b))), 2),
             SortAsc(<< >>, AudioOutputs(probe.b)),
             SelectAudioTargets(probe.b), PluginGroup(probe.b), eb),
           eb)

EnsureAudioRouting(s, eb) ==
    IF s.b.audio_routed THEN s
    ELSE IF s.b.plugin_id = None THEN s
    ELSE AudioRoute(AudioProbe(s, 3, eb), eb)

(***************************************************************************)
(* Parameters.                                                             *)
(***************************************************************************)
\* CarlaParameterSnapshot of parameter index (0-based) of engine plugin id
Snapshot(e, id, index) ==
    LET info  == PluginBinary(e.plugins[id + 1].path).params[index + 1]
        name  == OrElse(info.name, IF index = 0 THEN "Parameter 0"
                                   ELSE IF index = 1 THEN "Parameter 1"
                                   ELSE "Parameter 2")
    IN  [ identifier |-> index,
          name |-> name,
          display_name |-> OrElse(info.symbol, name),
          units |-> info.unit,
          default |-> info.def, minimum |-> info.min, maximum |-> info.max,
          step |-> info.step,
          value |-> e.plugins[id + 1].values[index + 1],
          description |-> info.comment ]

CollectParameters(s) ==
    IF s.b.plugin_id = None THEN << >>
    ELSE [ i \in 1..GetParameterCount(s.e, Get(s.b.plugin_id)) |->
             Snapshot(s.e, Get(s.b.plugin_id), i - 1) ]

\* to_status_entry
ToStatusEntry(param) ==
    [ id |-> param.identifier, name |-> param.name,
      display_name |-> OrElse(param.display_name, param.name),
      description |-> param.description, units |-> param.units,
      default |-> param.default, min |-> param.minimum, max |-> param.maximum,
      step |-> param.step, value |-> param.value ]

\* Identifiers a caller passes: an int, or a string.
IntId(n) == [ type |-> "int", int |-> n, str |-> "" ]
StrId(text) == [ type |-> "str", int |-> 0, str |-> text ]

\* int(text): Some(n), or None for ValueError
ParseInt(text) ==
    CASE text = "0" -> Some(0)
      [] text = "1" -> Some(1)
      [] text = "2" -> Some(2)
      [] text = "7" -> Some(7)
      [] OTHER -> None

\* the loop over self._parameters from position i on: Some(id) or None
RECURSIVE ResolveFrom(_, _, _, _)
ResolveFrom(params, i, text, index) ==
    IF i > Len(params) THEN None
    ELSE IF text = params[i].name \/ text = params[i].display_name
    THEN Some(params[i].identifier)
    ELSE IF index # None /\ params[i].identifier = Get(index)
    THEN Some(params[i].identifier)
    ELSE ResolveFrom(params, i + 1, text, index)

\* Some(parameter id), or None where the code raises "Unknown parameter"
ResolveParameterIdentifier(b, identifier) ==
    IF identifier.type = "int" THEN Some(identifier.int)
    ELSE ResolveFrom(b.parameters, 1, identifier.str, ParseInt(identifier.str))

\* the position of the first entry with this identifier, 0 if there is none
FirstWithId(params, param_id) ==
    IF \E i \in 1..Len(params) : params[i].identifier = param_id
    THEN CHOOSE i \in 1..Len(params) :
           /\ params[i].identifier = param_id
           /\ \A j \in 1..(i - 1) : params[j].identifier # param_id
    ELSE 0

PluginPayload(s) ==
    IF Raised(s) THEN s
    ELSE IF s.b.plugin_id = None \/ s.b.plugin_path = None
    THEN Raise(s, CarlaHostError("No plugin hosted", "", << >>))
    ELSE [s EXCEPT !.t.ret =
            Some([ path |-> Get(s.b.plugin_path),
                   name |-> OrElse(GetPluginInfo(s.e, Get(s.b.plugin_id)).name,
                                   PathStem(Get(s.b.plugin_path))),
                   parameters |-> [ i \in 1..Len(s.b.parameters) |->
                                      ToStatusEntry(s.b.parameters[i]) ],
                   midi |-> s.b.supports_midi ])]

\* set_parameter as it would be with a cache that waits for the engine: the
\* table is read back from the engine after the value has been pushed
UpdateCachedValueFromEngine(s, param_id, value) ==
    IF s.t.r = "raise" THEN Raise(s, EngineFault("set_parameter_value"))
    ELSE [s EXCEPT !.b.parameters = CollectParameters(s)]

\* set_parameter after host.set_parameter_value: the cached entry is replaced
UpdateCachedValue(s, param_id, value) ==
    IF s.t.r = "raise" THEN Raise(s, EngineFault("set_parameter_value"))
    ELSE IF FirstWithId(s.b.parameters, param_id) = 0 THEN s
    ELSE [s EXCEPT
            !.b.parameters[FirstWithId(s.b.parameters, param_id)].value = value]

BackendSetParameter(s, identifier, value, eb) ==
    IF s.b.plugin_id = None
    THEN Raise(s, CarlaHostError("No plugin hosted", "", << >>))
    ELSE IF ResolveParameterIdentifier(s.b, identifier) = None
    THEN Raise(s, CarlaHostError("Unknown parameter", identifier.str, << >>))
    ELSE PluginPayload(
           UpdateCachedValue(
             SetParameterValue(s, Get(s.b.plugin_id),
                               Get(ResolveParameterIdentifier(s.b, identifier)),
                               value, eb),
             Get(ResolveParameterIdentifier(s.b, identifier)), value))

(***************************************************************************)
(* Plugin editor.                                                          *)
(***************************************************************************)
PluginSupportsCustomUi(s) ==
    /\ s.b.plugin_id # None
    /\ HasBit(GetPluginInfo(s.e, Get(s.b.plugin_id)).hints, PLUGIN_HAS_CUSTOM_UI)

\* _show_plugin_ui after host.show_custom_ui
UiShown(s, visible) ==
    IF s.t.r = "raise"
    THEN Raise(s, CarlaHostError("Failed to show or hide plugin UI", "", << >>))
    ELSE [s EXCEPT !.b.ui_visible = visible]

ShowPluginUi(s, visible, eb) ==
    IF s.b.plugin_id = None
    THEN IF visible
         THEN Raise([s EXCEPT !.b.ui_visible = FALSE],
                    CarlaHostError("No plugin hosted", "", << >>))
         ELSE [s EXCEPT !.b.ui_visible = FALSE]
    ELSE IF visible /\ ~PluginSupportsCustomUi(s)
    THEN Raise(s, CarlaHostError("Plugin does not provide a native UI editor",
                                 "", << >>))
    ELSE IF visible /\ eb.ui = "noqt"
    THEN Raise(s, CarlaHostError("Qt is not available", "", << >>))
    ELSE UiShown(ShowCustomUi(s, Get(s.b.plugin_id), visible, eb), visible)

\* try: ... except CarlaHostError: the exception is dropped
DropHostError(s) ==
    IF Raised(s) /\ Get(s.t.exc).type = "CarlaHostError"
    THEN [s EXCEPT !.t.exc = None, !.t.ret = None]
    ELSE [s EXCEPT !.t.ret = None]

\* try: ... except CarlaHostError as exc: self.warnings.append(str(exc))
WarnHostError(s) ==
    IF Raised(s) /\ Get(s.t.exc).type = "CarlaHostError"
    THEN Warn([s EXCEPT !.t.exc = None], Get(s.t.exc).msg)
    ELSE s

(***************************************************************************)
(* Load, unload, close, configure.                                         *)
(***************************************************************************)
CanHandlePath(path) == Lower(PathSuffix(path)) \in { ".vst3", ".vst", ".dll" }

\* Some(plugin type) or None
PluginTypeFor(path) ==
    IF Lower(PathSuffix(path)) = ".vst3" THEN Some(PLUGIN_VST3)
    ELSE IF Lower(PathSuffix(path)) \in { ".vst", ".dll", ".so", ".dylib" }
    THEN Some(PLUGIN_VST2)
    ELSE None

CancelAllNoteTimers(b) == [b EXCEPT !.note_timers = { }]

\* for key, value in parameters.items(): set_parameter, CarlaHostError skipped
RECURSIVE ApplyInitialParameters(_, _, _)
ApplyInitialParameters(s, parameters, eb) ==
    IF parameters = << >> \/ Raised(s) THEN s
    ELSE ApplyInitialParameters(
           DropHostError(BackendSetParameter(s, Head(parameters).key,
                                             Head(parameters).value, eb)),
           Tail(parameters), eb)

\* load_plugin: the plugin recorded as loaded is removed from the engine
RemovePrevious(s, eb) ==
    IF s.b.plugin_id # None
    THEN [RemovePlugin(s, Get(s.b.plugin_id), eb) EXCEPT !.b.plugin_id = None]
    ELSE s

\* load_plugin after host.add_plugin as it would be if the rejection were
\* reported without asking the engine for its error text
AddOutcomeWithoutEngineText(s, eb) ==
    CASE s.t.r = "raise" -> Raise(s, EngineFault("add_plugin"))
      [] s.t.r = "false" ->
           Raise(s, CarlaHostError("Failed to load plugin", "unknown", << >>))
      [] OTHER -> s

\* load_plugin after host.add_plugin
AddOutcome(s, eb) ==
    CASE s.t.r = "raise" -> Raise(s, EngineFault("add_plugin"))
      [] s.t.r = "false" ->
           Raise(s, CarlaHostError("Failed to load plugin", GetLastError(eb),
                   IF GetLastError(eb) = "cannot handle this binary"
                   THEN << "Host process architecture",
                           "Install the matching architecture" >>
                   ELSE << >>))
      [] OTHER -> s

\* the groups the engine dropped between two engine states, as the
\* client-removed callbacks delivered by the engine_idle that follows
RemovalEvents(before, after) ==
    LET gone == SelectSeq(before.plugins,
                  LAMBDA p : \A j \in 1..Len(after.plugins) :
                                after.plugins[j].group # p.group)
    IN  [ i \in 1..Len(gone) |->
            Event(CB_PATCHBAY_CLIENT_REMOVED, gone[i].group, 0, 0, 0, "") ]

\* _wait_for_engine_idle after add_plugin: the callbacks of the removals
\* arrive.  After a successful add the refresh that follows clears the
\* cache before anything reads it, so the callbacks of the add are left out.
LoadIdle(s, before, eb) ==
    IF s.t.r # "true" /\ s.b.engine_running /\ eb.deliver = "full"
    THEN [s EXCEPT !.b = DeliverAll(@, RemovalEvents(before, s.e))]
    ELSE s

\* load_plugin from the plugin type check to the outcome of add_plugin;
\* before is the engine as it was when the load began
LoadAdd(s, before, path, eb) ==
    IF PluginTypeFor(path) = None
    THEN Raise(s, CarlaHostError("Unsupported plugin type", path, << >>))
    ELSE AddOutcome(LoadIdle(AddPlugin(s, path, eb), before, eb), eb)

\* load_plugin from the removal of the previous plugin to add_plugin
LoadReplace(s, path, eb) ==
    IF Raised(s) THEN s
    ELSE LoadAdd(
           WarnIfRaised(
             RemoveAllPlugins(
               RemovePrevious([s EXCEPT !.b = CancelAllNoteTimers(@)], eb), eb),
             "Failed to clear existing plugins before load"),
           s.e, path, eb)

\* load_plugin: the parameter table is captured and the plugin activated
LoadActivate(s, eb) ==
    WarnIfRaised(
      SetActive([s EXCEPT !.b.parameters = CollectParameters(s),
                          !.b.ui_visible = FALSE],
                Get(s.b.plugin_id), eb),
      "Failed to activate plugin")

\* if self._supports_midi: self._ensure_midi_routing()
LoadRouteMidi(s, eb) ==
    IF s.b.supports_midi THEN EnsureMidiRouting(s, eb) ELSE s

\* the routing stage of load_plugin as it would be with the MIDI routing
\* ahead of the audio routing
LoadRouteMidiFirst(s, eb) ==
    EnsureAudioRouting(
      LoadRouteMidi(
        RefreshPatchbayState(
          [s EXCEPT
             !.b.supports_midi = GetMidiIns(s.e, Get(s.b.plugin_id)) > 0,
             !.b.midi_routed = FALSE,
             !.b.midi_warning_emitted = FALSE,
             !.b.audio_routed = FALSE,
             !.b.audio_warning_emitted = FALSE,
             !.b.note_timers = { }],
          eb),
        eb),
      eb)

\* load_plugin: MIDI capability, routing flags reset, refresh, audio routing
LoadRouteAudio(s, eb) ==
    EnsureAudioRouting(
      RefreshPatchbayState(
        [s EXCEPT
           !.b.supports_midi = GetMidiIns(s.e, Get(s.b.plugin_id)) > 0,
           !.b.midi_routed = FALSE,
           !.b.midi_warning_emitted = FALSE,
           !.b.audio_routed = FALSE,
           !.b.audio_warning_emitted = FALSE,
           !.b.note_timers = { }],
        eb),
      eb)

\* load_plugin: the routing stage, audio first, then MIDI
LoadRoute(s, eb) == LoadRouteMidi(LoadRouteAudio(s, eb), eb)

\* load_plugin: the editor is shown if asked for, the payload is returned
LoadShowUi(s, show_ui, eb) ==
    IF Raised(s) THEN s
    ELSE IF ~show_ui THEN PluginPayload(s)
    ELSE PluginPayload(WarnHostError(ShowPluginUi(s, TRUE, eb)))

\* load_plugin: the new plugin is recorded under id 0
LoadRecorded(s, path) ==
    [s EXCEPT !.b.plugin_id = Some(0), !.b.plugin_path = Some(path)]

\* load_plugin after a successful add_plugin
LoadFinish(s, path, parameters, show_ui, eb) ==
    IF Raised(s) THEN s
    ELSE LoadShowUi(
           ApplyInitialParameters(
             LoadRoute(
               LoadActivate(LoadRecorded(s, path), eb),
               eb),
             parameters, eb),
           show_ui, eb)

BackendLoadPlugin(s, path, parameters, show_ui, eb) ==
    IF ~PathExists(path)
    THEN Raise(s, Error("FileNotFoundError", "Plugin not found", path, << >>))
    ELSE IF ~CanHandlePath(path)
    THEN Raise(s, CarlaHostError("Unsupported plugin format",
                                 PathSuffix(path), << >>))
    ELSE LoadFinish(LoadReplace(EnsureEngine(s, eb), path, eb),
                    path, parameters, show_ui, eb)

\* removed = <the result of the engine call just made is one of ok>
SetRemoved(s, ok) == [s EXCEPT !.t.success = (s.t.r \in ok)]

\* unload: if not removed: host.remove_plugin(self._plugin_id)
UnloadRemovePlugin(s, eb) ==
    IF s.t.success THEN s
    ELSE SetRemoved(
           WarnIfRaised(RemovePlugin(s, Get(s.b.plugin_id), eb),
                        "Failed to remove plugin"),
           { "true", "false" })

\* unload: the engine's last error is reported if nothing was removed, and
\* the engine_idle that follows delivers the callbacks of the removal
UnloadReport(s, before, eb) ==
    [ (IF ~s.t.success /\ GetLastError(eb) # ""
       THEN Warn(s, "Carla reported during unload") ELSE s)
      EXCEPT !.b = IF eb.deliver = "full"
                   THEN DeliverAll(@, RemovalEvents(before, s.e))
                   ELSE @ ]

\* unload: what is done with the engine when a plugin is recorded as loaded
UnloadEngineSide(s, eb) ==
    UnloadReport(
      UnloadRemovePlugin(
        SetRemoved(
          WarnIfRaised(
            RemoveAllPlugins([ShowPluginUi(s, FALSE, eb) EXCEPT !.t.exc = None],
                             eb),
            "Failed to remove all plugins"),
          { "true" }),
        eb),
      s.e, eb)

\* unload: the unconditional reset of the session fields
UnloadReset(s) ==
    [s EXCEPT !.b.plugin_id = None,
              !.b.plugin_path = None,
              !.b.parameters = << >>,
              !.b.ui_visible = FALSE,
              !.b.supports_midi = FALSE,
              !.b.midi_routed = FALSE,
              !.b.midi_warning_emitted = FALSE,
              !.b.audio_routed = FALSE,
              !.b.audio_warning_emitted = FALSE,
              !.b.note_timers = { }]

\* unload as it would be if the session were reset only once the engine
\* has removed the plugin
BackendUnloadIfRemoved(s, eb) ==
    IF ~s.b.available THEN s
    ELSE IF s.b.plugin_id = None THEN UnloadReset(s)
    ELSE IF UnloadEngineSide(s, eb).t.success
    THEN UnloadReset(UnloadEngineSide(s, eb))
    ELSE UnloadEngineSide(s, eb)

BackendUnload(s, eb) ==
    IF ~s.b.available THEN s
    ELSE IF s.b.plugin_id # None THEN UnloadReset(UnloadEngineSide(s, eb))
    ELSE UnloadReset(s)

\* the engine closed under an idle thread that is stopped only afterwards
CloseEngineThenStop(s, text, eb) ==
    [ StopIdleThread(WarnIfRaised(EngineClose(s, eb), text), eb)
      EXCEPT !.b.engine_running = FALSE, !.b.driver_name = None ]

\* the idle thread is stopped and a running engine closed; text is the
\* warning recorded when engine_close raises
CloseEngine(s, text, eb) ==
    [ WarnIfRaised(EngineClose(StopIdleThread(s, eb), eb), text)
      EXCEPT !.b.engine_running = FALSE, !.b.driver_name = None ]

\* close() after unload()
CloseAfterUnload(s, eb) ==
    IF s.b.engine_running
    THEN CloseEngine(s, "Failed to close Carla engine", eb)
    ELSE [StopIdleThread(s, eb) EXCEPT
            !.b.engine_running = FALSE, !.b.driver_name = None]

BackendClose(s, eb) ==
    IF ~s.b.available THEN s
    ELSE CloseAfterUnload(BackendUnload(s, eb), eb)

\* int(value) if positive, else None
PositiveOrNone(value) == IF value > 0 THEN Some(value) ELSE None

\* configure_audio: the driver fields
ConfigureDrivers(b, forced_driver, preferred_drivers) ==
    [b EXCEPT
       !.forced_driver = IF forced_driver # None
                         THEN CleanDriverName(forced_driver) ELSE @,
       !.user_preferred_drivers =
           IF preferred_drivers # None
           THEN NormaliseDriverNames(Get(preferred_drivers)) ELSE @]

\* configure_audio: the preference order is recomposed
ConfigureOrder(b, update_preferences) ==
    IF update_preferences \/ b.preferred_drivers = << >>
    THEN [b EXCEPT !.preferred_drivers = ComposeDriverOrder(b)]
    ELSE b

\* configure_audio as it would be if the settings were changed under an
\* engine that is left running
ConfigureLive(s, eb) == [s EXCEPT !.b.engine_configured = FALSE]

\* configure_audio: a running engine is stopped
ConfigureRestart(s, eb) ==
    [ (IF s.b.engine_running /\ s.b.available
       THEN CloseEngine(s, "Failed to reconfigure Carla engine", eb)
       ELSE s)
      EXCEPT !.b.engine_configured = FALSE ]

\* every argument is optional: None leaves the setting as it is
BackendConfigureAudio(s, forced_driver, preferred_drivers, sample_rate, buffer_size, eb) ==
    ConfigureRestart(
      [s EXCEPT
         !.b = [ ConfigureOrder(
                   ConfigureDrivers(@, forced_driver, preferred_drivers),
                   forced_driver # None \/ preferred_drivers # None)
                 EXCEPT
                   !.engine_sample_rate = IF sample_rate # None
                                          THEN PositiveOrNone(Get(sample_rate))
                                          ELSE @,
                   !.engine_buffer_size = IF buffer_size # None
                                          THEN PositiveOrNone(Get(buffer_size))
                                          ELSE @ ]],
      eb)


(***************************************************************************)
(* MIDI notes.  A velocity is given in hundredths (80 stands for 0.8), a   *)
(* duration in whole seconds.                                              *)
(***************************************************************************)
\* int(round(vel * 127.0)) with vel clamped to [0, 1], clamped to 0..127;
\* round() rounds a half to the even neighbour
MidiVelocity(velocity) ==
    LET n == Clamp(velocity, 0, 100) * 127
        q == n \div 100
        rounded == IF n % 100 > 50 THEN q + 1
                   ELSE IF n % 100 < 50 THEN q
                   ELSE IF q % 2 = 0 THEN q ELSE q + 1
    IN  Clamp(rounded, 0, 127)

\* a cancel that would leave the timer of the note where it is
CancelNoteTimerKept(s, note) == s

\* _cancel_note_timer
CancelNoteTimer(s, note) == [s EXCEPT !.b.note_timers = @ \ { note }]

\* _send_midi_note: the routing that is still missing is attempted
SendRoute(s, eb) == EnsureAudioRouting(EnsureMidiRouting(s, eb), eb)

\* _send_midi_note: an exception of host.send_midi_note is passed on
SendOutcome(s) ==
    IF s.t.r = "raise" THEN Raise(s, EngineFault("send_midi_note")) ELSE s

\* _send_midi_note up to the send: the checks of the session and the routing
SendCheck(s, eb) ==
    IF ~s.b.available \/ s.b.plugin_id = None
    THEN Raise(s, CarlaHostError("No plugin hosted", "", << >>))
    ELSE IF ~s.b.supports_midi
    THEN Raise(s, CarlaHostError("Hosted plugin does not accept MIDI input",
                                 "", << >>))
    ELSE SendRoute(s, eb)

\* _send_midi_note from the send on
SendIssue(s, note, velocity, eb) ==
    SendOutcome(SendMidiNote(s, Get(s.b.plugin_id), note,
                             MidiVelocity(velocity), eb))

BackendSendMidiNote(s, note, velocity, eb) ==
    IF Raised(SendCheck(s, eb)) THEN SendCheck(s, eb)
    ELSE SendIssue(SendCheck(s, eb), note, velocity, eb)

BackendNoteOn(s, note, velocity, eb) ==
    BackendSendMidiNote(CancelNoteTimer(s, note), note, velocity, eb)

BackendNoteOff(s, note, eb) ==
    DropHostError(BackendSendMidiNote(CancelNoteTimer(s, note), note, 0, eb))

\* play_note after its note_on: the timer of the note_off is registered
StartNoteTimer(s, note, duration) ==
    IF Raised(s) \/ duration <= 0 THEN s
    ELSE [s EXCEPT !.b.note_timers = @ \cup { note }]

BackendPlayNote(s, note, velocity, duration, eb) ==
    StartNoteTimer(BackendNoteOn(s, note, velocity, eb), note, duration)

(***************************************************************************)
(* Changes of the graph that the engine reports on its own.                *)
(***************************************************************************)
\* the removal of a connection as it would be if the handler withdrew the
\* routed flags together with the connection
ConnectionRemovedUnroutes(s, connection_id) ==
    [s EXCEPT
       !.e.conns = DictPop(@, connection_id),
       !.b = [ HandleEngineCallback(
                 @, Event(CB_PATCHBAY_CONNECTION_REMOVED, connection_id,
                          0, 0, 0, << >>))
               EXCEPT !.midi_routed = FALSE, !.audio_routed = FALSE ]]

\* a connection is taken away outside this program: the engine drops it and
\* its callback reaches the cache
ConnectionRemoved(s, connection_id) ==
    [s EXCEPT
       !.e.conns = DictPop(@, connection_id),
       !.b = HandleEngineCallback(
               @, Event(CB_PATCHBAY_CONNECTION_REMOVED, connection_id,
                        0, 0, 0, << >>))]

\* a connection is made outside this program (in the engine's own patchbay):
\* the engine records it and its callback reaches the cache
ConnectionAdded(s, key) ==
    [s EXCEPT
       !.e.conns = DictSet(@, FreeConnId(s.e), key),
       !.b = HandleEngineCallback(
               @, Event(CB_PATCHBAY_CONNECTION_ADDED, FreeConnId(s.e),
                        0, 0, 0, ConnectionPayload(key)))]

\* the engine connects an output port to an input port of the same type
EngineCanConnect(e, key) ==
    \E i, j \in 1..Len(ReplayPorts(e)) :
        LET src == ReplayPorts(e)[i]
            dst == ReplayPorts(e)[j]
        IN  /\ src.client_id = key[1] /\ src.value1 = key[2]
            /\ dst.client_id = key[3] /\ dst.value1 = key[4]
            /\ ~HasBit(src.value2, PATCH_PORT_IS_INPUT)
            /\ HasBit(dst.value2, PATCH_PORT_IS_INPUT)
            /\ src.value2 \div 2 = dst.value2 \div 2
(***************************************************************************)
(* How the engine behaves during one operation: the outcome of each kind   *)
(* of engine call, the text it reports for a failure, and which callbacks  *)
(* arrive while the caller waits.                                          *)
(***************************************************************************)
Nominal ==
    [ init_false |-> { }, init_raise |-> { }, close |-> "ok", add |-> "ok",
      error |-> "", remove |-> "ok", remove_all |-> "ok", active |-> "ok",
      refresh |-> "ok", deliver |-> "full", connect |-> "ok", ui |-> "ok",
      setparam |-> "ok", join |-> "ok", send |-> "ok" ]

AddRejected == [Nominal EXCEPT !.add = "false", !.error = "plugin init failed"]

LoadBehaviours ==
    { Nominal,
      AddRejected,
      [Nominal EXCEPT !.init_false = { "JACK", "Dummy" },
                      !.error = "engine init failed"],
      [Nominal EXCEPT !.remove_all = "raise"],
      [Nominal EXCEPT !.remove = "raise", !.remove_all = "raise"],
      [Nominal EXCEPT !.remove = "false", !.remove_all = "false",
                      !.error = "could not remove plugin"],
      [Nominal EXCEPT !.add = "false", !.error = "cannot handle this binary"],
      [Nominal EXCEPT !.add = "raise"],
      [Nominal EXCEPT !.active = "raise"],
      [Nominal EXCEPT !.refresh = "raise"],
      [Nominal EXCEPT !.deliver = "none"],
      [Nominal EXCEPT !.deliver = "late"],
      [Nominal EXCEPT !.connect = "false"],
      [Nominal EXCEPT !.connect = "raise"] }

UnloadBehaviours ==
    { Nominal,
      [Nominal EXCEPT !.remove_all = "false"],
      [Nominal EXCEPT !.remove_all = "raise"],
      [Nominal EXCEPT !.remove_all = "false", !.remove = "raise",
                      !.error = "could not remove plugin"],
      [Nominal EXCEPT !.remove_all = "raise", !.remove = "raise"],
      [Nominal EXCEPT !.ui = "raise"] }

SetParameterRaises == [Nominal EXCEPT !.setparam = "raise"]

(***************************************************************************)
(* What callers ask for.                                                   *)
(***************************************************************************)
NoArg == [ path |-> "", parameters |-> << >>, show_ui |-> FALSE,
           identifier |-> IntId(0), value |-> 0 ]

Values == { 300 }

Plain(path) == [NoArg EXCEPT !.path = path]

\* the load requests, each with the engine behaviours it is tried under
LoadCases ==
    ( { Plain("/vst/SynthA.vst3") } \X LoadBehaviours )
    \cup
    ( { Plain("/vst/FxB.DLL") }
      \X { Nominal, AddRejected, [Nominal EXCEPT !.deliver = "none"],
           [Nominal EXCEPT !.remove = "raise", !.remove_all = "raise"] } )
    \cup
    ( { [Plain("/vst/SynthA.vst3") EXCEPT !.show_ui = TRUE] }
      \X { Nominal, AddRejected, [Nominal EXCEPT !.ui = "raise"] } )
    \cup
    ( { [Plain("/vst/SynthA.vst3") EXCEPT
           !.parameters = << [ key |-> StrId("B"), value |-> 300 ],
                             [ key |-> StrId("nope"), value |-> 300 ] >>] }
      \X { Nominal, SetParameterRaises } )
    \cup
    ( { Plain("/vst/Gone.vst3"), Plain("/vst/Readme.txt"), Plain("/vst/Lib.so") }
      \X { Nominal } )

Identifiers ==
    { IntId(1), IntId(7),
      StrId("B"), StrId("gain"), StrId("1"), StrId("nope") }

\* the set_parameter requests, each with the engine behaviour it is tried under
SetParameterCases ==
    ( Identifiers \X Values \X { Nominal } )
    \cup { << IntId(0), 300, SetParameterRaises >> }

(***************************************************************************)
(* The CarlaVSTHost facade: every public operation runs as a whole under   *)
(* the facade lock.                                                        *)
(***************************************************************************)
\* the state an operation starts from: the warnings of earlier operations
\* are left out, the transient part is fresh
BeginAt(b, e) ==
    [ b |-> [b EXCEPT !.warnings = << >>],
      e |-> e,
      t |-> [ calls |-> << >>, r |-> "", exc |-> None, ret |-> None,
              nrefresh |-> 0, errors |-> << >>, success |-> FALSE ] ]

Begin == BeginAt(backend, engine)

\* the state the operation after the one that ended in s starts from
Then(s) == BeginAt(s.b, s.e)

\* an engine call as the record of an operation keeps it: its name, and for
\* a patchbay_connect whether it leads out of a plugin's group or into one
CallTag(c) ==
    IF c.call # "patchbay_connect" THEN c.call
    ELSE IF c.a[1] \in FirstPluginGroup..(FirstPluginGroup + MaxEnginePlugins - 1)
    THEN "connect_out"
    ELSE "connect_in"

\* the engine calls of an operation in order, each with its outcome
CallTags(s) ==
    [ i \in 1..Len(s.t.calls) |->
        [ call |-> CallTag(s.t.calls[i]), r |-> s.t.calls[i].r ] ]

\* the operation ends: the state it leaves and the record of what it did
Finish(done, op) ==
    \E s \in { done } :
       /\ backend' = s.b
       /\ engine' = s.e
       /\ last' = [ op |-> op, ok |-> ~Raised(s), calls |-> CallTags(s) ]

\* an operation taken as one step: it finds the locks free and leaves them
\* free
Commit(done, op) == Finish(done, op) /\ UNCHANGED sched

EnsureAvailable(s) ==
    IF s.b.available THEN s
    ELSE Raise(s, CarlaHostError("Carla backend is not available", "", << >>))

\* load_plugin as it would be if the engine were started ahead of the checks
\* of the path
FacadeLoadPluginEngineFirst(s, path, parameters, show_ui, eb) ==
    IF Raised(EnsureAvailable(s)) THEN EnsureAvailable(s)
    ELSE BackendLoadPlugin(EnsureEngine(s, eb), path, parameters, show_ui, eb)

FacadeLoadPlugin(s, path, parameters, show_ui, eb) ==
    IF ~PathExists(path)
    THEN Raise(s, Error("FileNotFoundError", "Plugin not found", path, << >>))
    ELSE IF Raised(EnsureAvailable(s)) THEN EnsureAvailable(s)
    ELSE IF ~CanHandlePath(path)
    THEN Raise(s, CarlaHostError("Unsupported plugin format",
                                 PathSuffix(path), << >>))
    ELSE BackendLoadPlugin(s, path, parameters, show_ui, eb)

\* The public operations as functions of the current state: the state
\* [b, e, t] in which the operation ends.
DoLoadPlugin(req, eb) ==
    FacadeLoadPlugin(Begin, req.path, req.parameters, req.show_ui, eb)

DoUnload(eb) == BackendUnload(Begin, eb)

DoSetParameter(identifier, value, eb) ==
    BackendSetParameter(Begin, identifier, value, eb)

DoConfigureAudio(forced_driver, sample_rate, eb) ==
    BackendConfigureAudio(Begin, forced_driver, None, sample_rate, None, eb)

\* configure_audio with every one of its arguments
DoConfigure(cfg, eb) ==
    BackendConfigureAudio(Begin, cfg.forced_driver, cfg.preferred_drivers,
                          cfg.sample_rate, cfg.buffer_size, eb)

DoShutdown(eb) == BackendClose(Begin, eb)

DoNoteOn(note, velocity, eb) ==
    IF Raised(EnsureAvailable(Begin)) THEN EnsureAvailable(Begin)
    ELSE BackendNoteOn(Begin, note, velocity, eb)

DoNoteOff(note, eb) ==
    IF Raised(EnsureAvailable(Begin)) THEN EnsureAvailable(Begin)
    ELSE BackendNoteOff(Begin, note, eb)

DoPlayNote(note, velocity, duration, eb) ==
    IF Raised(EnsureAvailable(Begin)) THEN EnsureAvailable(Begin)
    ELSE BackendPlayNote(Begin, note, velocity, duration, eb)

\* the state as it is, for a step that is not a caller's operation
Current == [Begin EXCEPT !.b = backend]

\* a load is not started on an engine that already hosts MaxEnginePlugins
CanLoad == Len(engine.plugins) < MaxEnginePlugins

LoadPlugin(req, eb) ==
    /\ CanLoad
    /\ Commit(DoLoadPlugin(req, eb), "load_plugin")

Unload(eb) == Commit(DoUnload(eb), "unload")

SetParameter(identifier, value, eb) ==
    Commit(DoSetParameter(identifier, value, eb), "set_parameter")

ConfigureAudio(forced_driver, sample_rate, eb) ==
    Commit(DoConfigureAudio(forced_driver, sample_rate, eb), "configure_audio")

Configure(cfg, eb) == Commit(DoConfigure(cfg, eb), "configure_audio")

Shutdown(eb) == Commit(DoShutdown(eb), "shutdown")

NoteOn(note, velocity, eb) == Commit(DoNoteOn(note, velocity, eb), "note_on")

NoteOff(note, eb) == Commit(DoNoteOff(note, eb), "note_off")

PlayNote(note, velocity, duration, eb) ==
    Commit(DoPlayNote(note, velocity, duration, eb), "play_note")

\* the timer of a played note runs out: its thread calls note_off
NoteTimer(note, eb) ==
    /\ note \in backend.note_timers
    /\ Commit(BackendNoteOff(Begin, note, eb), "note_timer")

\* the idle thread of a running engine hands on the callback of a
\* connection that was taken away
Disconnected(connection_id) ==
    /\ backend.engine_running
    /\ backend.idle_thread
    /\ DictHas(engine.conns, connection_id)
    /\ Commit(ConnectionRemoved(Current, connection_id), "engine_callback")

\* the idle thread of a running engine hands on the callback of a
\* connection that was made in the engine's patchbay
ConnectedOutside(key) ==
    /\ backend.engine_running
    /\ backend.idle_thread
    /\ engine.open
    /\ EngineCanConnect(engine, key)
    /\ \A i \in 1..Len(engine.conns) : engine.conns[i].v # key
    /\ Commit(ConnectionAdded(Current, key), "engine_callback")

\* the idle thread hands on the connection-added callback of a connection
\* of the engine that the cache has not heard of yet
ConnectionReported(connection_id) ==
    /\ backend.engine_running
    /\ backend.idle_thread
    /\ DictHas(engine.conns, connection_id)
    /\ ~DictHas(backend.patch_connection_ids, connection_id)
    /\ Commit([Current EXCEPT
                 !.b = HandleEngineCallback(
                         @, Event(CB_PATCHBAY_CONNECTION_ADDED, connection_id,
                                  0, 0, 0,
                                  ConnectionPayload(
                                    DictGet(engine.conns, connection_id))))],
              "engine_callback")

(***************************************************************************)
(* Threads.  A note operation and unload step by step: the facade takes    *)
(* its lock for the whole of the operation, the backend takes its own for  *)
(* the cancelling of the timer and again for _send_midi_note, and the      *)
(* timer thread of play_note calls the backend's note_off without the      *)
(* facade.                                                                 *)
(***************************************************************************)
Callers == { "caller", "other" }

Threads == Callers \cup { "timer" }

Unscheduled ==
    [ facade |-> None, lock |-> None,
      pc |-> [ t \in Threads |-> "idle" ],
      op |-> [ t \in Threads |-> "" ],
      work |-> [ t \in Threads |-> None ] ]

Unlocked == sched.facade = None /\ sched.lock = None

\* the thread leaves its operation and the locks it holds
Released(sc, thread) ==
    [sc EXCEPT !.facade = IF @ = Some(thread) THEN None ELSE @,
               !.lock = IF @ = Some(thread) THEN None ELSE @,
               !.pc[thread] = "idle", !.op[thread] = "",
               !.work[thread] = None]

\* the state in which a thread goes on with its operation
Resumed(thread) ==
    [ b |-> backend, e |-> engine, t |-> Get(sched.work[thread]) ]

\* note_off drops the CarlaHostError of its send, note_on passes it on
NoteEnd(s, op) == IF op = "note_on" THEN s ELSE DropHostError(s)

\* CarlaVSTHost.note_on, note_off and unload: with self._lock
Enter(thread, op) ==
    /\ sched.pc[thread] = "idle"
    /\ sched.facade = None
    /\ backend.available
    /\ sched' = [sched EXCEPT !.facade = Some(thread), !.op[thread] = op,
                              !.pc[thread] = IF op = "unload" THEN "unload"
                                             ELSE "cancel"]
    /\ UNCHANGED << backend, engine, last >>

\* the timer of a played note runs out: its thread enters the backend's
\* note_off
TimerFires(note) ==
    /\ sched.pc["timer"] = "idle"
    /\ note \in backend.note_timers
    /\ sched' = [sched EXCEPT !.op["timer"] = "note_timer",
                              !.pc["timer"] = "cancel"]
    /\ UNCHANGED << backend, engine, last >>

\* note_on, note_off: with self._lock: self._cancel_note_timer(note)
CancelTimer(thread, note) ==
    /\ sched.pc[thread] = "cancel"
    /\ sched.lock = None
    /\ backend' = CancelNoteTimer(Begin, note).b
    /\ sched' = [sched EXCEPT !.pc[thread] = "check",
                              !.work[thread] = Some(Begin.t)]
    /\ UNCHANGED << engine, last >>

\* _send_midi_note takes the lock of the backend, checks the session and
\* attempts the routing: it raises, or stands ahead of the send
CheckSession(thread, eb) ==
    /\ sched.pc[thread] = "check"
    /\ sched.lock = None
    /\ IF Raised(SendCheck(Resumed(thread), eb))
       THEN /\ Finish(NoteEnd(SendCheck(Resumed(thread), eb), sched.op[thread]),
                      sched.op[thread])
            /\ sched' = Released(sched, thread)
       ELSE /\ backend' = SendCheck(Resumed(thread), eb).b
            /\ engine' = SendCheck(Resumed(thread), eb).e
            /\ sched' = [sched EXCEPT
                           !.lock = Some(thread),
                           !.pc[thread] = "send",
                           !.work[thread] = Some(SendCheck(Resumed(thread), eb).t)]
            /\ UNCHANGED last

\* host.send_midi_note, after which the locks are given back
IssueSend(thread, note, velocity, eb) ==
    /\ sched.pc[thread] = "send"
    /\ Finish(NoteEnd(SendIssue(Resumed(thread), note,
                                IF sched.op[thread] = "note_on" THEN velocity
                                ELSE 0, eb),
                      sched.op[thread]),
              sched.op[thread])
    /\ sched' = Released(sched, thread)

\* CarlaBackend.unload under the lock of the facade and its own
RunUnload(thread, eb) ==
    /\ sched.pc[thread] = "unload"
    /\ sched.lock = None
    /\ Finish(DoUnload(eb), "unload")
    /\ sched' = Released(sched, thread)

(***************************************************************************)
(* The idle thread.  sched.idle holds the idle threads that have not       *)
(* ended, in the order they were started: where each stands in _idle_loop  *)
(* ("check" at the test of its stop event, "tick" inside engine_idle) and  *)
(* whether its stop event is set.  The thread whose stop event is not set  *)
(* is the one the backend has registered.                                  *)
(***************************************************************************)
NoIdleThreads == [ idle |-> << >> ]

Without(seq, i) == SubSeq(seq, 1, i - 1) \o SubSeq(seq, i + 1, Len(seq))

\* the operation called _stop_idle_thread on a registered thread
StoppedIdle(done) ==
    \E i \in 1..Len(done.t.calls) : done.t.calls[i].call = "stop_idle_thread"

\* join(timeout=1.0) runs out only on a thread that is held inside engine_idle
JoinTimesOut(eb) ==
    /\ eb.join = "timeout"
    /\ \E i \in 1..Len(sched.idle) :
          ~sched.idle[i].stop /\ sched.idle[i].pc = "tick"

\* _stop_idle_thread: the stop event of the registered thread is set; the
\* thread ends within the join or, when the join runs out, lives on
IdleStopped(idle, eb) ==
    IF eb.join = "timeout"
    THEN [ i \in 1..Len(idle) |-> [idle[i] EXCEPT !.stop = TRUE] ]
    ELSE SelectSeq(idle, LAMBDA th : th.stop)

\* _start_idle_thread: a new thread with a stop event of its own
IdleStarted(idle) == Append(idle, [ pc |-> "check", stop |-> FALSE ])

\* a public operation as one step, with what it does to the idle threads
Operate(done, op, eb) ==
    /\ eb.join = "timeout" => JoinTimesOut(eb)
    /\ ( done.b.idle_thread /\ ~backend.idle_thread ) =>
          Len(sched.idle) < MaxIdleThreads
    /\ Finish(done, op)
    /\ sched' = [ idle |->
                    IF StoppedIdle(done) THEN IdleStopped(sched.idle, eb)
                    ELSE IF done.b.idle_thread /\ ~backend.idle_thread
                    THEN IdleStarted(sched.idle)
                    ELSE sched.idle ]

\* while not stop_event.is_set(): self.host.engine_idle() is entered
IdleInvoke(i) ==
    /\ sched.idle[i].pc = "check" /\ ~sched.idle[i].stop
    /\ sched' = [sched EXCEPT !.idle[i].pc = "tick"]
    /\ UNCHANGED << backend, engine, last >>

\* the loop finds its stop event set and the thread ends
IdleExit(i) ==
    /\ sched.idle[i].pc = "check" /\ sched.idle[i].stop
    /\ sched' = [ idle |-> Without(sched.idle, i) ]
    /\ UNCHANGED << backend, engine, last >>

\* engine_idle returns; time.sleep(self._idle_interval)
IdleReturns(i) ==
    /\ sched.idle[i].pc = "tick"
    /\ sched' = [sched EXCEPT !.idle[i].pc = "check"]
    /\ UNCHANGED << backend, engine, last >>

\* engine_idle raises: a warning is appended and the loop is left
IdleRaises(i) ==
    /\ sched.idle[i].pc = "tick"
    /\ backend' = [backend EXCEPT
                     !.warnings = Append(@, "Carla engine idle loop stopped")]
    /\ sched' = [ idle |-> Without(sched.idle, i) ]
    /\ UNCHANGED << engine, last >>

\* the engine delivers a callback of the graph, whatever it is, to the cache
CacheEvent(ev) ==
    /\ backend' = HandleEngineCallback(backend, ev)
    /\ last' = [ op |-> "engine_callback", ok |-> TRUE, calls |-> << >> ]
    /\ UNCHANGED << engine, sched >>

\* _refresh_patchbay_state, first half: the tables are cleared under the
\* lock of the cache
RefreshClearsTables(thread) ==
    /\ sched.pc[thread] = "idle"
    /\ backend' = [backend EXCEPT !.patch_clients = EmptyDict,
                                  !.patch_ports = EmptyDict,
                                  !.patch_connections = { },
                                  !.patch_connection_ids = EmptyDict,
                                  !.plugin_patch_groups = EmptyDict]
    /\ sched' = [sched EXCEPT !.pc[thread] = "refresh",
                              !.op[thread] = "refresh"]
    /\ UNCHANGED << engine, last >>

\* _refresh_patchbay_state, second half: the lock has been given back, the
\* signal is cleared and the replay requested
RefreshClearsSignal(thread) ==
    /\ sched.pc[thread] = "refresh"
    /\ backend' = [backend EXCEPT !.patch_update_event = FALSE]
    /\ sched' = [sched EXCEPT !.pc[thread] = "idle", !.op[thread] = ""]
    /\ last' = [ op |-> "refresh", ok |-> TRUE,
                 calls |-> << [ call |-> "patchbay_refresh", r |-> "true" ] >> ]
    /\ UNCHANGED engine

\* a callback reaches the cache between two selections: the record of the
\* earlier selection stays
CacheEventBetween(ev) ==
    /\ backend' = HandleEngineCallback(backend, ev)
    /\ UNCHANGED << engine, last, sched >>

\* the two selections are computed on the cache as it is; the record keeps
\* the cache they were computed on and what they returned
Selected ==
    /\ last' = [ op |-> "select", ok |-> TRUE, calls |-> << >>,
                 clients |-> backend.patch_clients,
                 ports |-> backend.patch_ports,
                 connections |-> backend.patch_connections,
                 sources |-> SelectMidiSources(backend),
                 targets |-> SelectAudioTargets(backend) ]
    /\ UNCHANGED << backend, engine, sched >>

\* status(): the parameter table a caller reads
StatusParameters(b) ==
    IF b.plugin_id = None THEN << >>
    ELSE [ i \in 1..Len(b.parameters) |-> ToStatusEntry(b.parameters[i]) ]

(***************************************************************************)
(* Specification.                                                          *)
(***************************************************************************)
InitBackend(available) ==
    [ available |-> available,
      warnings |-> << >>,
      engine_running |-> FALSE,
      engine_configured |-> FALSE,
      driver_name |-> None,
      plugin_id |-> None,
      plugin_path |-> None,
      parameters |-> << >>,
      ui_visible |-> FALSE,
      idle_thread |-> FALSE,
      note_timers |-> { },
      supports_midi |-> FALSE,
      midi_routed |-> FALSE,
      audio_routed |-> FALSE,
      audio_warning_emitted |-> FALSE,
      patch_clients |-> EmptyDict,
      patch_ports |-> EmptyDict,
      patch_connections |-> { },
      plugin_patch_groups |-> EmptyDict,
      patch_connection_ids |-> EmptyDict,
      patch_update_event |-> FALSE,
      midi_warning_emitted |-> FALSE,
      user_preferred_drivers |-> << >>,
      forced_driver |-> None,
      preferred_drivers |-> PREFERRED_DRIVERS,
      engine_sample_rate |-> None,
      engine_buffer_size |-> None ]

InitEngine(env) ==
    [ env |-> env, drivers |-> << "JACK", "Dummy" >>, open |-> FALSE,
      plugins |-> << >>, conns |-> EmptyDict ]

Init ==
    /\ \E available \in BOOLEAN : backend = InitBackend(available)
    /\ \E env \in Envs : engine = InitEngine(env)
    /\ last = [ op |-> "init", ok |-> TRUE, calls |-> << >> ]
    /\ sched = Unscheduled

Next ==
    \/ \E c \in LoadCases : LoadPlugin(c[1], c[2])
    \/ \E eb \in UnloadBehaviours : Unload(eb)
    \/ \E c \in SetParameterCases : SetParameter(c[1], c[2], c[3])
    \/ ConfigureAudio(None, None, Nominal)
    \/ \E eb \in { Nominal, [Nominal EXCEPT !.remove_all = "raise",
                                            !.remove = "raise"] } :
          Shutdown(eb)

Spec == Init /\ [][Next]_vars

(***************************************************************************)
(* Notes, graph events and routing: the session of one MIDI-capable        *)
(* plugin that is loaded, played, re-routed and unloaded while the engine  *)
(* reports connections that were taken away.                               *)
(***************************************************************************)
RoutingLoads ==
    { Plain("/vst/SynthA.vst3") }
    \X { Nominal, AddRejected,
         [Nominal EXCEPT !.connect = "false"],
         [Nominal EXCEPT !.deliver = "none"] }

InitRouting ==
    /\ backend = InitBackend(TRUE)
    /\ \E env \in Envs : engine = InitEngine(env)
    /\ last = [ op |-> "init", ok |-> TRUE, calls |-> << >> ]
    /\ sched = Unscheduled

NextRouting ==
    \/ \E c \in RoutingLoads : LoadPlugin(c[1], c[2])
    \/ Unload(Nominal)
    \/ \E eb \in { Nominal, [Nominal EXCEPT !.connect = "false"] } :
          NoteOn(60, 80, eb)
    \/ NoteOff(60, Nominal)
    \/ \E duration \in { 0, 1 } : PlayNote(60, 80, duration, Nominal)
    \/ NoteTimer(60, Nominal)
    \/ \E connection_id \in DictKeys(engine.conns) :
          Disconnected(connection_id)
    \/ SetParameter(IntId(0), 300, Nominal)
    \/ ConfigureAudio(None, None, Nominal)
    \/ Shutdown(Nominal)

SpecRouting == InitRouting /\ [][NextRouting]_vars

(***************************************************************************)
(* Audio drivers: the engine reports one of several driver lists, the      *)
(* caller configures forced and preferred drivers, rate and buffer size,   *)
(* and the engine is started by a load under drivers that fail to          *)
(* initialise.                                                             *)
(***************************************************************************)
DriverReports ==
    { << "JACK", "Dummy" >>, << "PortAudio", "Dummy" >>, << "ASIO" >>, << >> }

Unchanged ==
    [ forced_driver |-> None, preferred_drivers |-> None,
      sample_rate |-> None, buffer_size |-> None ]

Configurations ==
    { Unchanged,
      [Unchanged EXCEPT !.forced_driver = Some(" Dummy ")],
      [Unchanged EXCEPT !.forced_driver = Some("ASIO")],
      [Unchanged EXCEPT !.forced_driver = Some("  ")],
      [Unchanged EXCEPT !.preferred_drivers = Some(<< "Dummy", "JACK" >>)],
      [Unchanged EXCEPT !.preferred_drivers = Some(<< "DUMMY", " Dummy " >>),
                        !.sample_rate = Some(48000)],
      [Unchanged EXCEPT !.sample_rate = Some(0), !.buffer_size = Some(256)] }

\* the ways the engine answers engine_init
InitBehaviours ==
    { Nominal,
      [Nominal EXCEPT !.init_false = { "JACK" }, !.error = "JACK is not running"],
      [Nominal EXCEPT !.init_raise = { "Dummy" }],
      [Nominal EXCEPT !.init_false = { "JACK", "PortAudio", "ASIO" },
                      !.init_raise = { "Dummy" },
                      !.error = "engine init failed"] }

InitDrivers ==
    /\ backend = InitBackend(TRUE)
    /\ \E drivers \in DriverReports :
          engine = [InitEngine("studio") EXCEPT !.drivers = drivers]
    /\ last = [ op |-> "init", ok |-> TRUE, calls |-> << >> ]
    /\ sched = Unscheduled

NextDrivers ==
    \/ \E cfg \in Configurations :
          \E eb \in { Nominal, [Nominal EXCEPT !.close = "raise"],
                      [Nominal EXCEPT !.join = "timeout"] } :
             Configure(cfg, eb)
    \/ \E eb \in InitBehaviours : LoadPlugin(Plain("/vst/SynthA.vst3"), eb)
    \/ Unload(Nominal)
    \/ \E eb \in { Nominal, [Nominal EXCEPT !.close = "raise"],
                  [Nominal EXCEPT !.join = "timeout"] } :
          Shutdown(eb)

SpecDrivers == InitDrivers /\ [][NextDrivers]_vars

(***************************************************************************)
(* Threads: two callers and the timer thread of a played note inside the   *)
(* note operations and unload, next to loads and played notes taken as     *)
(* single steps and the callbacks of the idle thread.                      *)
(***************************************************************************)
InitThreads ==
    /\ backend = InitBackend(TRUE)
    /\ \E env \in Envs : engine = InitEngine(env)
    /\ last = [ op |-> "init", ok |-> TRUE, calls |-> << >> ]
    /\ sched = Unscheduled

NextThreads ==
    \/ \E thread \in Callers : \E op \in { "note_on", "note_off", "unload" } :
          Enter(thread, op)
    \/ TimerFires(60)
    \/ \E thread \in Threads : CancelTimer(thread, 60)
    \/ \E thread \in Threads :
          \E eb \in { Nominal, [Nominal EXCEPT !.connect = "false"] } :
             CheckSession(thread, eb)
    \/ \E thread \in Threads : IssueSend(thread, 60, 80, Nominal)
    \/ \E thread \in Callers : RunUnload(thread, Nominal)
    \/ Unlocked /\ LoadPlugin(Plain("/vst/SynthA.vst3"), Nominal)
    \/ Unlocked /\ PlayNote(60, 80, 1, Nominal)
    \/ \E connection_id \in DictKeys(engine.conns) :
          Disconnected(connection_id)

SpecThreads == InitThreads /\ [][NextThreads]_vars

(***************************************************************************)
(* The graph cache under the callbacks of the engine in any order: two     *)
(* clients with a port each, two connection ids and two connections,       *)
(* payloads that do not parse included.                                    *)
(***************************************************************************)
CacheClients == { 1, 3 }

CachePayloads ==
    { << Some(1), Some(0), Some(3), Some(0) >>,
      << Some(3), Some(0), Some(1), Some(0) >>,
      << Some(1), None, Some(3), Some(0) >>,
      << Some(1), Some(0), Some(3) >> }

CacheConnectionIds == { 1, 2 }

ClientEvents ==
    { Event(CB_PATCHBAY_CLIENT_ADDED, c, 0, plugin_id, 0, "system") :
        c \in CacheClients, plugin_id \in { -1, 0 } }
    \cup { Event(CB_PATCHBAY_CLIENT_REMOVED, c, 0, 0, 0, "") : c \in CacheClients }
    \cup { Event(CB_PATCHBAY_CLIENT_RENAMED, 1, 0, 0, 0, name) :
             name \in { "", "out" } }
    \cup { Event(CB_PATCHBAY_CLIENT_CHANGED, 3, 0, plugin_id, 0, "") :
             plugin_id \in { -1, 0 } }

PortEventsOfCache ==
    { Event(CB_PATCHBAY_PORT_ADDED, 1, 0, PATCH_PORT_TYPE_MIDI, 0, "out"),
      Event(CB_PATCHBAY_PORT_ADDED, 3, 0,
            PATCH_PORT_TYPE_AUDIO + PATCH_PORT_IS_INPUT, 0, "in"),
      Event(CB_PATCHBAY_PORT_CHANGED, 3, 0,
            PATCH_PORT_TYPE_MIDI + PATCH_PORT_IS_INPUT, 0, "") }
    \cup { Event(CB_PATCHBAY_PORT_REMOVED, c, 0, 0, 0, "") : c \in CacheClients }

ConnectionEvents ==
    { Event(CB_PATCHBAY_CONNECTION_ADDED, id, 0, 0, 0, payload) :
        id \in CacheConnectionIds, payload \in CachePayloads }
    \cup { Event(CB_PATCHBAY_CONNECTION_REMOVED, id, 0, 0, 0, "") :
             id \in CacheConnectionIds }

CacheEvents == ClientEvents \cup PortEventsOfCache \cup ConnectionEvents

InitCache ==
    /\ backend = InitBackend(TRUE)
    /\ engine = InitEngine("bare")
    /\ last = [ op |-> "init", ok |-> TRUE, calls |-> << >> ]
    /\ sched = Unscheduled

NextCache == \E ev \in CacheEvents : CacheEvent(ev)

SpecCache == InitCache /\ [][NextCache]_vars

(***************************************************************************)
(* Routing in a fuller graph: two keyboards and two audio devices of the   *)
(* same names, a synthesizer or a vocoder (MIDI input and audio input)     *)
(* loaded, played and unloaded, and connections made in the engine's own   *)
(* patchbay.                                                               *)
(***************************************************************************)
GraphBehaviours ==
    { Nominal,
      [Nominal EXCEPT !.connect = "false"],
      [Nominal EXCEPT !.deliver = "none"],
      [Nominal EXCEPT !.deliver = "late"] }

GraphLoads ==
    { Plain("/vst/SynthA.vst3"), Plain("/vst/VocoderC.vst3") }

\* capture into the vocoder's audio input, a keyboard into the MIDI input
\* of the synthesizer, an audio output of either to the first audio device
OutsideConnections ==
    { << 1, 3, FirstPluginGroup, 1 >>,
      << 2, 1, FirstPluginGroup, 3 >>,
      << FirstPluginGroup, 2, 1, 1 >> }

InitGraph ==
    /\ backend = InitBackend(TRUE)
    /\ \E env \in { "twin", "studio" } : engine = InitEngine(env)
    /\ last = [ op |-> "init", ok |-> TRUE, calls |-> << >> ]
    /\ sched = Unscheduled

NextGraph ==
    \/ \E req \in GraphLoads, eb \in GraphBehaviours : LoadPlugin(req, eb)
    \/ Unload(Nominal)
    \/ \E eb \in GraphBehaviours : NoteOn(60, 80, eb)
    \/ \E key \in OutsideConnections : ConnectedOutside(key)

SpecGraph == InitGraph /\ [][NextGraph]_vars

(***************************************************************************)
(* The selections over caches that callbacks build in any order: an audio  *)
(* device with its two playback ports and a keyboard with two outputs,     *)
(* ports that come, go and come again.                                     *)
(***************************************************************************)
SelectEvents ==
    { Event(CB_PATCHBAY_CLIENT_ADDED, 1, 0, -1, 0, "system"),
      Event(CB_PATCHBAY_CLIENT_ADDED, 2, 0, -1, 0, "Virtual MIDI Keyboard"),
      Event(CB_PATCHBAY_PORT_ADDED, 1, 1,
            PATCH_PORT_TYPE_AUDIO + PATCH_PORT_IS_INPUT, 0, "playback_1"),
      Event(CB_PATCHBAY_PORT_ADDED, 1, 2,
            PATCH_PORT_TYPE_AUDIO + PATCH_PORT_IS_INPUT, 0, "playback_2"),
      Event(CB_PATCHBAY_PORT_ADDED, 2, 1, PATCH_PORT_TYPE_MIDI, 0, "midi out"),
      Event(CB_PATCHBAY_PORT_ADDED, 2, 2, PATCH_PORT_TYPE_MIDI, 0, "midi out"),
      Event(CB_PATCHBAY_PORT_REMOVED, 1, 1, 0, 0, ""),
      Event(CB_PATCHBAY_PORT_REMOVED, 2, 1, 0, 0, "") }

InitSelect ==
    /\ backend = InitBackend(TRUE)
    /\ engine = InitEngine("studio")
    /\ last = [ op |-> "init", ok |-> TRUE, calls |-> << >> ]
    /\ sched = Unscheduled

NextSelect ==
    \/ \E ev \in SelectEvents : CacheEventBetween(ev)
    \/ Selected

SpecSelect == InitSelect /\ [][NextSelect]_vars

(***************************************************************************)
(* The idle thread of the engine beside the operations that start and stop *)
(* the engine: engine_idle returns, blocks for longer than the join waits, *)
(* or raises.                                                              *)
(***************************************************************************)
JoinBehaviours == { Nominal, [Nominal EXCEPT !.join = "timeout"] }

InitIdle ==
    /\ backend = InitBackend(TRUE)
    /\ engine = InitEngine("studio")
    /\ last = [ op |-> "init", ok |-> TRUE, calls |-> << >> ]
    /\ sched = NoIdleThreads

NextIdle ==
    \/ \E eb \in { Nominal, AddRejected } :
          CanLoad /\ Operate(DoLoadPlugin(Plain("/vst/SynthA.vst3"), eb),
                             "load_plugin", eb)
    \/ Operate(DoUnload(Nominal), "unload", Nominal)
    \/ \E eb \in JoinBehaviours :
          Operate(DoConfigureAudio(None, None, eb), "configure_audio", eb)
    \/ \E eb \in JoinBehaviours : Operate(DoShutdown(eb), "shutdown", eb)
    \/ \E i \in 1..Len(sched.idle) : IdleInvoke(i)
    \/ \E i \in 1..Len(sched.idle) : IdleExit(i)
    \/ \E i \in 1..Len(sched.idle) : IdleReturns(i)
    \/ \E i \in 1..Len(sched.idle) : IdleRaises(i)

SpecIdle == InitIdle /\ [][NextIdle]_vars

(***************************************************************************)
(* The signal of the cache: callbacks in any order on the engine's thread  *)
(* while a caller refreshes, the clearing of the tables and the clearing   *)
(* of the signal being two steps.                                          *)
(***************************************************************************)
NextSignal ==
    \/ \E ev \in ClientEvents \cup PortEventsOfCache : CacheEvent(ev)
    \/ RefreshClearsTables("caller")
    \/ RefreshClearsSignal("caller")

SpecSignal == InitCache /\ [][NextSignal]_vars

(***************************************************************************)
(* Operations and callbacks apart: the replay of a refresh arrives in      *)
(* full or not at all, the callbacks of the connects that an operation     *)
(* made arrive after it.                                                   *)
(***************************************************************************)
HeldBack == [Nominal EXCEPT !.deliver = "none"]

ReplayOnly == [Nominal EXCEPT !.deliver = "replay"]

FrameBehaviours == { HeldBack, ReplayOnly }

InitFrame ==
    /\ backend = InitBackend(TRUE)
    /\ engine = InitEngine("studio")
    /\ last = [ op |-> "init", ok |-> TRUE, calls |-> << >> ]
    /\ sched = Unscheduled

NextFrame ==
    \/ \E eb \in FrameBehaviours \cup { Nominal } :
          LoadPlugin(Plain("/vst/SynthA.vst3"), eb)
    \/ Unload(Nominal)
    \/ \E eb \in FrameBehaviours : NoteOn(60, 80, eb)
    \/ NoteOff(60, Nominal)
    \/ PlayNote(60, 80, 1, Nominal)
    \/ NoteTimer(60, Nominal)
    \/ SetParameter(IntId(0), 300, Nominal)
    \/ \E connection_id \in DictKeys(engine.conns) :
          ConnectionReported(connection_id)
    \/ \E connection_id \in DictKeys(engine.conns) :
          Disconnected(connection_id)

SpecFrame == InitFrame /\ [][NextFrame]_vars

(***************************************************************************)
(* Locks.  The facade, the backend and the graph cache each own one        *)
(* threading.RLock.  A thread is followed through the with blocks, the     *)
(* engine calls, the sleeps and the joins of what it runs: "facade",       *)
(* "backend" and "cache" enter a with block of that lock, "leave_..."      *)
(* leaves it, "engine" is a call of the host, "wait" is                    *)
(* _wait_for_engine_idle (engine_idle and a sleep, up to ten times),       *)
(* "sleep" is time.sleep and "join" is the join of _stop_idle_thread.      *)
(* engine_idle hands the engine's callbacks to the thread that called it,  *)
(* the engine's own thread hands over others.                              *)
(***************************************************************************)
LockThreads == Callers \cup { "timer", "engine", "idler" }

NoLocksHeld ==
    [ facade |-> None, lock |-> None, patch |-> None,
      at |-> [ t \in LockThreads |-> 0 ],
      op |-> [ t \in LockThreads |-> "" ] ]

\* a handler that would take the lock of the backend inside its own
HandlerRunLocked == << "cache", "backend", "leave_backend", "leave_cache" >>

\* _handle_patchbay_*: the whole of a handler is one with self._patch_lock
HandlerRun == << "cache", "leave_cache" >>

\* a refresh that would keep the lock of the cache over patchbay_refresh
RefreshRunHeld ==
    << "cache", "engine", "leave_cache", "wait" >> \o HandlerRun

\* _refresh_patchbay_state: the tables are cleared under the lock of the
\* cache, patchbay_refresh and the wait follow outside; the replay arrives
\* inside the engine_idle of the wait
RefreshRun ==
    << "cache", "leave_cache", "engine", "wait" >> \o HandlerRun

\* _ensure_midi_routing: the probe, _select_midi_sources and the test of a
\* pair each under the lock of the cache, patchbay_connect and the wait
\* outside
MidiRoutingRun ==
    << "cache", "leave_cache", "cache", "leave_cache",
       "cache", "leave_cache", "engine", "wait" >>

\* _ensure_audio_routing: as for MIDI, with _select_audio_targets
AudioRoutingRun ==
    << "cache", "leave_cache", "cache", "leave_cache",
       "cache", "leave_cache", "engine", "wait" >>

\* _send_midi_note under the lock of the backend
SendRun == MidiRoutingRun \o << "engine", "sleep", "engine" >>

\* what a thread runs, instruction by instruction
LockProgram(op) ==
    CASE op = "load" ->
           << "facade", "backend", "engine", "wait" >> \o RefreshRun
              \o AudioRoutingRun \o MidiRoutingRun
              \o << "engine", "leave_backend", "leave_facade" >>
      [] op = "unload" ->
           << "facade", "backend", "engine", "engine",
              "leave_backend", "leave_facade" >>
      [] op = "note_on" ->
           << "facade", "backend", "leave_backend", "backend" >> \o SendRun
              \o << "leave_backend", "leave_facade" >>
      [] op = "configure_audio" ->
           << "facade", "backend", "join", "engine",
              "leave_backend", "leave_facade" >>
      [] op = "note_timer" ->
           << "backend", "leave_backend", "backend" >> \o SendRun
              \o << "leave_backend" >>
      [] op = "callback" -> HandlerRun
      [] op = "idle_loop" -> << "engine" >> \o HandlerRun \o << "sleep" >>
      [] OTHER -> << >>

\* the operations a thread may begin
LockOps(thread) ==
    CASE thread = "caller" ->
           { "load", "unload", "note_on", "configure_audio" }
      [] thread = "other" -> { "unload", "configure_audio" }
      [] thread = "timer" -> { "note_timer" }
      [] thread = "engine" -> { "callback" }
      [] OTHER -> { "idle_loop" }

\* the instruction a thread stands ahead of, "" between operations
Instruction(sc, thread) ==
    IF sc.at[thread] = 0 THEN ""
    ELSE LockProgram(sc.op[thread])[sc.at[thread]]

Advanced(sc, thread) ==
    IF sc.at[thread] = Len(LockProgram(sc.op[thread]))
    THEN [sc EXCEPT !.at[thread] = 0, !.op[thread] = ""]
    ELSE [sc EXCEPT !.at[thread] = @ + 1]

\* RLock: free, or held n times by one thread
Holds(held, thread) == held # None /\ Get(held).by = thread

Entered(held, thread) ==
    IF held = None THEN Some([ by |-> thread, n |-> 1 ])
    ELSE Some([ by |-> thread, n |-> Get(held).n + 1 ])

Left(held) ==
    IF Get(held).n = 1 THEN None
    ELSE Some([ by |-> Get(held).by, n |-> Get(held).n - 1 ])

CanEnter(held, thread) == held = None \/ Holds(held, thread)

\* whether the thread can take its next step
CanStep(sc, thread) ==
    CASE Instruction(sc, thread) = "" -> FALSE
      [] Instruction(sc, thread) = "facade" -> CanEnter(sc.facade, thread)
      [] Instruction(sc, thread) = "backend" -> CanEnter(sc.lock, thread)
      [] Instruction(sc, thread) = "cache" -> CanEnter(sc.patch, thread)
      [] OTHER -> TRUE

\* a thread begins an operation
Starts(thread, op) ==
    /\ sched.at[thread] = 0
    /\ sched' = [sched EXCEPT !.at[thread] = 1, !.op[thread] = op]
    /\ UNCHANGED << backend, engine, last >>

\* with self._lock, with self._patch_lock: the thread waits until the lock
\* is free or its own
Acquires(thread) ==
    /\ Instruction(sched, thread) \in { "facade", "backend", "cache" }
    /\ CanStep(sched, thread)
    /\ sched' = Advanced(
          CASE Instruction(sched, thread) = "facade" ->
                 [sched EXCEPT !.facade = Entered(@, thread)]
            [] Instruction(sched, thread) = "backend" ->
                 [sched EXCEPT !.lock = Entered(@, thread)]
            [] OTHER -> [sched EXCEPT !.patch = Entered(@, thread)],
          thread)
    /\ UNCHANGED << backend, engine, last >>

\* the end of a with block
Releases(thread) ==
    /\ Instruction(sched, thread)
          \in { "leave_facade", "leave_backend", "leave_cache" }
    /\ sched' = Advanced(
          CASE Instruction(sched, thread) = "leave_facade" ->
                 [sched EXCEPT !.facade = Left(@)]
            [] Instruction(sched, thread) = "leave_backend" ->
                 [sched EXCEPT !.lock = Left(@)]
            [] OTHER -> [sched EXCEPT !.patch = Left(@)],
          thread)
    /\ UNCHANGED << backend, engine, last >>

\* a call of the host, a sleep, a wait or the bounded join: the thread is
\* away for a while and takes no lock
Proceeds(thread) ==
    /\ Instruction(sched, thread) \in { "engine", "wait", "sleep", "join" }
    /\ sched' = Advanced(sched, thread)
    /\ UNCHANGED << backend, engine, last >>

InitLocks ==
    /\ backend = InitBackend(TRUE)
    /\ engine = InitEngine("studio")
    /\ last = [ op |-> "init", ok |-> TRUE, calls |-> << >> ]
    /\ sched = NoLocksHeld

ThreadStep(thread) ==
    \/ \E op \in LockOps(thread) : Starts(thread, op)
    \/ Acquires(thread)
    \/ Releases(thread)
    \/ Proceeds(thread)

NextLocks == \E thread \in LockThreads : ThreadStep(thread)

SpecLocks == InitLocks /\ [][NextLocks]_vars

\* a thread that can go on does go on, and a caller or a timer thread that
\* waits for a lock gets it if the lock is free again and again
SpecLocksFair ==
    /\ SpecLocks
    /\ \A thread \in LockThreads :
          WF_vars(Releases(thread) \/ Proceeds(thread))
    /\ \A thread \in Callers \cup { "timer" } : SF_vars(Acquires(thread))

(***************************************************************************)
(* Note timers.  play_note step by step next to the timer threads it       *)
(* starts: each threading.Timer is followed from its registration in       *)
(* _note_timers ("pending") over its expiry ("fired": its thread runs the  *)
(* backend's note_off) to its end; a timer that is cancelled while it is   *)
(* pending never fires, cancel() on one that has fired changes nothing.    *)
(* A timer is started right after it is registered, and a cancel between   *)
(* the two keeps it from firing as a cancel after the start does.  A      *)
(* play_note is begun while one of the TimerIds is free.                   *)
(***************************************************************************)
TimerIds == { "timer1", "timer2" }

PlayedNotes == { 60, 62 }

TimerThreads == Callers \cup TimerIds

NoTimer == [ note |-> 0, state |-> "unused" ]

NoTimers ==
    [ facade |-> None, lock |-> None,
      pc |-> [ t \in TimerThreads |-> "idle" ],
      op |-> [ t \in TimerThreads |-> "" ],
      work |-> [ t \in TimerThreads |-> None ],
      note |-> [ t \in TimerThreads |-> 0 ],
      timers |-> [ t \in TimerIds |-> NoTimer ] ]

\* timer.cancel() for every timer that left _note_timers: b is the backend
\* after the step
Cancelled(timers, b) ==
    [ t \in TimerIds |->
        IF timers[t].state = "pending" /\ timers[t].note \notin b.note_timers
        THEN NoTimer ELSE timers[t] ]

\* the timers that have been started and have neither fired nor been
\* cancelled
Pending(note) ==
    { t \in TimerIds : sched.timers[t].state = "pending"
                       /\ sched.timers[t].note = note }

\* CarlaVSTHost.play_note, note_off, unload and load_plugin: with self._lock
TimedEnter(thread, op, note) ==
    /\ sched.pc[thread] = "idle"
    /\ sched.facade = None
    /\ op = "play_note" => \E t \in TimerIds : sched.timers[t].state = "unused"
    /\ sched' = [sched EXCEPT
                   !.facade = Some(thread), !.op[thread] = op,
                   !.note[thread] = note,
                   !.pc[thread] = IF op \in { "unload", "load_plugin" }
                                  THEN op ELSE "cancel"]
    /\ UNCHANGED << backend, engine, last >>

\* the timer runs out: its thread enters the backend's note_off
Expires(t) ==
    /\ sched.timers[t].state = "pending"
    /\ sched' = [sched EXCEPT !.timers[t].state = "fired",
                              !.op[t] = "note_timer",
                              !.note[t] = sched.timers[t].note,
                              !.pc[t] = "cancel"]
    /\ UNCHANGED << backend, engine, last >>

\* note_on, note_off: with self._lock: self._cancel_note_timer(note)
TimedCancel(thread) ==
    /\ sched.pc[thread] = "cancel"
    /\ sched.lock = None
    /\ backend' = CancelNoteTimer(Begin, sched.note[thread]).b
    /\ sched' = [sched EXCEPT
                   !.pc[thread] = "check",
                   !.work[thread] = Some(Begin.t),
                   !.timers = Cancelled(@, backend')]
    /\ UNCHANGED << engine, last >>

\* the thread has run its operation to the end; a timer's thread ends
Ended(sc, thread) ==
    IF thread \in TimerIds
    THEN [Released(sc, thread) EXCEPT !.timers[thread] = NoTimer,
                                      !.note[thread] = 0]
    ELSE [Released(sc, thread) EXCEPT !.note[thread] = 0]

\* _send_midi_note takes the lock of the backend and checks the session
TimedCheck(thread, eb) ==
    /\ sched.pc[thread] = "check"
    /\ sched.lock = None
    /\ IF Raised(SendCheck(Resumed(thread), eb))
       THEN /\ Finish(NoteEnd(SendCheck(Resumed(thread), eb),
                              IF sched.op[thread] = "play_note" THEN "note_on"
                              ELSE sched.op[thread]),
                      sched.op[thread])
            /\ sched' = Ended(sched, thread)
       ELSE /\ backend' = SendCheck(Resumed(thread), eb).b
            /\ engine' = SendCheck(Resumed(thread), eb).e
            /\ sched' = [sched EXCEPT
                           !.lock = Some(thread),
                           !.pc[thread] = "send",
                           !.work[thread] = Some(SendCheck(Resumed(thread), eb).t)]
            /\ UNCHANGED last

\* what _send_midi_note leaves behind for the thread's operation
TimedSent(thread, velocity, eb) ==
    SendIssue(Resumed(thread), sched.note[thread],
              IF sched.op[thread] \in { "note_on", "play_note" } THEN velocity
              ELSE 0, eb)

\* host.send_midi_note; the lock of the backend is given back, and
\* play_note goes on to its timer
TimedSend(thread, velocity, eb) ==
    /\ sched.pc[thread] = "send"
    /\ IF sched.op[thread] = "play_note" /\ ~Raised(TimedSent(thread, velocity, eb))
       THEN /\ backend' = TimedSent(thread, velocity, eb).b
            /\ engine' = TimedSent(thread, velocity, eb).e
            /\ sched' = [sched EXCEPT
                           !.lock = None, !.pc[thread] = "register",
                           !.work[thread] = Some(TimedSent(thread, velocity, eb).t)]
            /\ UNCHANGED last
       ELSE /\ Finish(NoteEnd(TimedSent(thread, velocity, eb),
                              IF sched.op[thread] = "play_note" THEN "note_on"
                              ELSE sched.op[thread]),
                      sched.op[thread])
            /\ sched' = Ended(sched, thread)

\* play_note: with self._lock: the timer of the note is cancelled, the new
\* one registered; timer.start()
Registers(thread, t, duration) ==
    /\ sched.pc[thread] = "register"
    /\ sched.lock = None
    /\ sched.timers[t].state = "unused"
    /\ sched.pc[t] = "idle"
    /\ Finish(StartNoteTimer(CancelNoteTimer(Resumed(thread), sched.note[thread]),
                             sched.note[thread], duration),
              "play_note")
    /\ sched' = Ended(
          [sched EXCEPT
             !.timers = [Cancelled(@, CancelNoteTimer(Resumed(thread),
                                                      sched.note[thread]).b)
                           EXCEPT ![t] = [ note |-> sched.note[thread],
                                           state |-> "pending" ]]],
          thread)

\* CarlaBackend.unload under the lock of the facade and its own
TimedUnload(thread, eb) ==
    /\ sched.pc[thread] = "unload"
    /\ sched.lock = None
    /\ Finish(DoUnload(eb), "unload")
    /\ sched' = Ended([sched EXCEPT !.timers = Cancelled(@, backend')], thread)

\* CarlaBackend.load_plugin under the lock of the facade and its own
TimedLoad(thread, req, eb) ==
    /\ sched.pc[thread] = "load_plugin"
    /\ sched.lock = None
    /\ CanLoad
    /\ Finish(DoLoadPlugin(req, eb), "load_plugin")
    /\ sched' = Ended([sched EXCEPT !.timers = Cancelled(@, backend')], thread)

InitTimers ==
    /\ backend = InitBackend(TRUE)
    /\ engine = InitEngine("studio")
    /\ last = [ op |-> "init", ok |-> TRUE, calls |-> << >> ]
    /\ sched = NoTimers

NextTimers ==
    \/ \E thread \in Callers :
          \E op \in { "play_note", "note_off", "unload", "load_plugin" } :
             \E note \in PlayedNotes : TimedEnter(thread, op, note)
    \/ \E t \in TimerIds : Expires(t)
    \/ \E thread \in TimerThreads : TimedCancel(thread)
    \/ \E thread \in TimerThreads : TimedCheck(thread, Nominal)
    \/ \E thread \in TimerThreads : TimedSend(thread, 80, Nominal)
    \/ \E thread \in Callers : \E t \in TimerIds : Registers(thread, t, 1)
    \/ \E thread \in Callers : TimedUnload(thread, Nominal)
    \/ \E thread \in Callers :
          \E eb \in { Nominal, AddRejected } :
             TimedLoad(thread, Plain("/vst/SynthA.vst3"), eb)

SpecTimers == InitTimers /\ [][NextTimers]_vars

(***************************************************************************)
(* describe_ui.  With a path the plugin at that path is loaded for the     *)
(* time of the description: the session is put aside first and restored    *)
(* in the finally clause, whether the load succeeded or not.  ebLoad is    *)
(* how the engine behaves during the load of the described plugin,         *)
(* ebRestore how it behaves during the restore.                            *)
(***************************************************************************)
\* _snapshot_state: None, or the path, the cached value of every parameter
\* under its id and the visibility of the editor
SnapshotState(b) ==
    IF b.plugin_id = None \/ b.plugin_path = None THEN None
    ELSE Some([ path |-> Get(b.plugin_path),
                parameters |-> [ i \in 1..Len(b.parameters) |->
                                   [ key |-> IntId(b.parameters[i].identifier),
                                     value |-> b.parameters[i].value ] ],
                ui_visible |-> b.ui_visible ])

\* _restore_state: unload, or the load of what was put aside; an exception
\* of that load becomes a warning
RestoreState(s, state, eb) ==
    IF state = None THEN BackendUnload(s, eb)
    ELSE LET loaded == BackendLoadPlugin(s, Get(state).path,
                                         Get(state).parameters,
                                         Get(state).ui_visible, eb)
         IN  IF Raised(loaded)
             THEN Warn([loaded EXCEPT !.t.exc = None, !.t.ret = None],
                       "Failed to restore Carla plugin state")
             ELSE loaded

\* _build_descriptor
BuildDescriptor(s, include_parameters) ==
    IF Raised(PluginPayload(s)) THEN PluginPayload(s)
    ELSE [s EXCEPT !.t.ret =
            Some([ title |-> Get(PluginPayload(s).t.ret).name,
                   controls |-> [ i \in 1..Len(s.b.parameters) |->
                                    [ id |-> s.b.parameters[i].identifier,
                                      name |-> OrElse(s.b.parameters[i].display_name,
                                                      s.b.parameters[i].name),
                                      value |-> s.b.parameters[i].value ] ],
                   parameters |-> IF include_parameters
                                  THEN [ i \in 1..Len(s.b.parameters) |->
                                           ToStatusEntry(s.b.parameters[i]) ]
                                  ELSE << >>,
                   plugin |-> Get(PluginPayload(s).t.ret),
                   instrument |-> HasBit(GetPluginInfo(s.e, Get(s.b.plugin_id)).hints,
                                         PLUGIN_IS_SYNTH),
                   midi |-> s.b.supports_midi
                            \/ GetMidiIns(s.e, Get(s.b.plugin_id)) > 0 ])]

\* try: load_plugin(path, show_ui=False); return self._build_descriptor(...)
DescribeLoaded(s, path, include_parameters, eb) ==
    IF Raised(BackendLoadPlugin(s, path, << >>, FALSE, eb))
    THEN BackendLoadPlugin(s, path, << >>, FALSE, eb)
    ELSE BuildDescriptor(BackendLoadPlugin(s, path, << >>, FALSE, eb),
                         include_parameters)

\* finally: self._restore_state(state): the restore runs on what the try
\* block left, and the exception or the descriptor of the try block is
\* what the caller gets
DescribeRestored(tried, state, eb) ==
    LET restored == RestoreState([tried EXCEPT !.t.exc = None, !.t.ret = None],
                                 state, eb)
    IN  IF Raised(restored) THEN restored
        ELSE [restored EXCEPT !.t.exc = tried.t.exc, !.t.ret = tried.t.ret]

\* CarlaBackend.describe_ui; plugin_path is None or Some(path)
BackendDescribeUi(s, plugin_path, include_parameters, ebLoad, ebRestore) ==
    IF plugin_path = None
    THEN IF s.b.plugin_id = None
         THEN Raise(s, CarlaHostError("No plugin hosted", "", << >>))
         ELSE BuildDescriptor(s, include_parameters)
    ELSE IF ~PathExists(Get(plugin_path))
    THEN Raise(s, Error("FileNotFoundError", "Plugin not found",
                        Get(plugin_path), << >>))
    ELSE IF ~CanHandlePath(Get(plugin_path))
    THEN Raise(s, CarlaHostError("Unsupported plugin format",
                                 PathSuffix(Get(plugin_path)), << >>))
    ELSE DescribeRestored(
           DescribeLoaded(s, Get(plugin_path), include_parameters, ebLoad),
           SnapshotState(s.b), ebRestore)

\* CarlaVSTHost.describe_ui
DoDescribeUi(plugin_path, include_parameters, ebLoad, ebRestore) ==
    IF Raised(EnsureAvailable(Begin)) THEN EnsureAvailable(Begin)
    ELSE BackendDescribeUi(Begin, plugin_path, include_parameters,
                           ebLoad, ebRestore)

\* describe_ui needs room in the engine for the plugin it loads
DescribeUi(plugin_path, include_parameters, ebLoad, ebRestore) ==
    /\ CanLoad
    /\ Commit(DoDescribeUi(plugin_path, include_parameters, ebLoad, ebRestore),
              "describe_ui")

\* the paths described, and the engine during the load and the restore
DescribedPaths ==
    { None, Some("/vst/SynthA.vst3"), Some("/vst/FxB.DLL"),
      Some("/vst/Gone.vst3"), Some("/vst/Readme.txt") }

DescribeBehaviours ==
    { << Nominal, Nominal >>, << AddRejected, Nominal >>,
      << AddRejected, AddRejected >>,
      << Nominal, [Nominal EXCEPT !.ui = "raise"] >> }

InitDescribe ==
    /\ \E available \in BOOLEAN : backend = InitBackend(available)
    /\ engine = InitEngine("studio")
    /\ last = [ op |-> "init", ok |-> TRUE, calls |-> << >> ]
    /\ sched = Unscheduled

NextDescribe ==
    \/ \E req \in { Plain("/vst/SynthA.vst3"), Plain("/vst/FxB.DLL"),
                    [Plain("/vst/SynthA.vst3") EXCEPT !.show_ui = TRUE] } :
          LoadPlugin(req, Nominal)
    \/ Unload(Nominal)
    \/ \E c \in SetParameterCases : SetParameter(c[1], c[2], Nominal)
    \/ \E path \in DescribedPaths : \E include_parameters \in BOOLEAN :
          \E eb \in DescribeBehaviours :
             DescribeUi(path, include_parameters, eb[1], eb[2])

SpecDescribe == InitDescribe /\ [][NextDescribe]_vars

(***************************************************************************)
(* Properties.                                                             *)
(*                                                                         *)
(* A property of an operation is stated over every reachable state and     *)
(* every request of the bounded sets: the state s = [b, e, t] in which the *)
(* operation ends when it is started in the current state, which is the    *)
(* state the corresponding action commits.                                 *)
(***************************************************************************)
\* whether an identifier names an entry of a parameter table: a numeric id,
\* as a number or as its decimal text, that is the id of an entry, or a text
\* that is the name or the display name of an entry
MatchesEntry(params, identifier) ==
    \E i \in 1..Len(params) :
       IF identifier.type = "int"
       THEN params[i].identifier = identifier.int
       ELSE \/ params[i].name = identifier.str
            \/ params[i].display_name = identifier.str
            \/ ParseInt(identifier.str) = Some(params[i].identifier)

\* the identifiers by which the entries of a parameter table are addressed
IdentifiersOf(params) ==
    UNION { { IntId(params[i].identifier), StrId(params[i].name),
              StrId(params[i].display_name) } : i \in 1..Len(params) }

\* the operation that ended in s raised a CarlaHostError
RaisedHostError(s) == Raised(s) /\ Get(s.t.exc).type = "CarlaHostError"

\* the operation that ended in s issued this engine call
Issued(s, call) == \E i \in 1..Len(s.t.calls) : s.t.calls[i].call = call

\* set_parameter, started where the operation that ended in s left off
SetParameterAfter(s, identifier, value) ==
    BackendSetParameter(Then(s), identifier, value, Nominal)

\* the table the load that ended in s captured is the one the engine reports
\* for the plugin it has just added, and set_parameter rejects every
\* identifier of the table old that names no entry of it
SessionReplaced(old, s) ==
    ~Raised(s) =>
       /\ s.b.parameters =
            [ i \in 1..Len(PluginBinary(Get(s.b.plugin_path)).params) |->
                Snapshot(s.e, Len(s.e.plugins) - 1, i - 1) ]
       /\ \A identifier \in IdentifiersOf(old) :
             ~MatchesEntry(s.b.parameters, identifier) =>
                \A value \in Values :
                   RaisedHostError(SetParameterAfter(s, identifier, value))

\* load_plugin, started where the unload that ended in s left off
LoadAfter(s, req, eb) ==
    FacadeLoadPlugin(Then(s), req.path, req.parameters, req.show_ui, eb)

\* the loads a session is replaced by
ReloadCases == { Plain("/vst/SynthA.vst3"), Plain("/vst/FxB.DLL") } \X { Nominal }

\* C1: for every sequence load -> unload -> load, the second load rebuilds
\* the parameter table from the plugin it adds, and set_parameter then
\* rejects every identifier (numeric id or name) of the first session that is
\* not an entry of the new table.
C1_PriorSessionIdsRejected ==
    ( last.op = "load_plugin" /\ last.ok ) =>
       \A c \in ReloadCases :
          SessionReplaced(backend.parameters,
                          LoadAfter(BackendUnload(Begin, Nominal), c[1], c[2]))

\* the set_parameter that ended in s raised a parameter error, pushed no
\* value to the engine and left engine and cached table as they were
UnmatchedRejected(s) ==
    /\ RaisedHostError(s)
    /\ ~Issued(s, "set_parameter_value")
    /\ s.e = engine
    /\ s.b.parameters = backend.parameters

\* C2: with a plugin loaded, set_parameter with an identifier (numeric id or
\* name) that matches no entry of the cached table fails with a parameter
\* error, pushes no value to the engine and leaves the cached table as it was.
C2_UnmatchedIdentifierRejected ==
    backend.plugin_id # None =>
       \A identifier \in Identifiers, value \in Values :
          ~MatchesEntry(backend.parameters, identifier) =>
             UnmatchedRejected(DoSetParameter(identifier, value, Nominal))

\* the table a caller reads after set_parameter ended in s is the table
\* before the call with the value of entry i replaced by value
OnlyValueReplaced(s, i, value) ==
    /\ StatusParameters(s.b) =
         [StatusParameters(backend) EXCEPT ![i].value = value]
    /\ Get(s.t.ret).parameters = StatusParameters(s.b)

\* if the set_parameter that ended in s returned and the identifier names an
\* entry, only the value of that entry has been replaced
SetParameterFrame(s, identifier, value) ==
    ( ~Raised(s) /\ MatchesEntry(backend.parameters, identifier) ) =>
       OnlyValueReplaced(
         s,
         FirstWithId(backend.parameters,
                     Get(ResolveParameterIdentifier(backend, identifier))),
         value)

\* C3: after set_parameter(x, v) has resolved x, a numeric id or a name, to
\* entry i of the table and returned, the table read from status() is the
\* table before the call with the value of entry i replaced by exactly v:
\* no entry added or removed, ids, names, ranges, defaults and every other
\* value unchanged, whatever the engine made of the value.
C3_SetParameterFrame ==
    backend.plugin_id # None =>
       \A c \in SetParameterCases :
          SetParameterFrame(DoSetParameter(c[1], c[2], c[3]), c[1], c[2])

\* a set_parameter has returned, the cached value of an entry is the value
\* asked for, outside the range the engine clamps to, and the other entry
\* still holds its default
C3_Witness ==
    /\ last.op = "set_parameter" /\ last.ok
    /\ backend.plugin_id # None /\ Len(backend.parameters) = 2
    /\ backend.parameters[1].value = backend.parameters[1].default
    /\ backend.parameters[2].value = 300
    /\ backend.parameters[2].value > backend.parameters[2].maximum
    /\ engine.plugins[1].values[2] = backend.parameters[2].maximum

\* the positions of the calls of this name in the record of an operation
Calls(calls, name) == { i \in 1..Len(calls) : calls[i].call = name }

\* every call named first precedes every call named second
Precedes(calls, first, second) ==
    \A i \in Calls(calls, first), j \in Calls(calls, second) : i < j

\* every call named second has a call named first somewhere before it
Follows(calls, first, second) ==
    \A j \in Calls(calls, second) : \E i \in Calls(calls, first) : i < j

\* C4: in every load the engine calls are issued in the order removal of
\* the previous plugin, add-plugin, activate, patchbay refresh, audio
\* auto-routing, MIDI auto-routing (only for a MIDI-capable plugin): no add
\* before the removal, no activate before a successful add, no routing
\* connect before the activation has been attempted.
C4_LoadCallOrder ==
    last.op = "load_plugin" =>
       /\ Precedes(last.calls, "remove_plugin", "add_plugin")
       /\ Precedes(last.calls, "remove_all_plugins", "add_plugin")
       /\ Follows(last.calls, "remove_all_plugins", "add_plugin")
       /\ Precedes(last.calls, "add_plugin", "set_active")
       /\ \A j \in Calls(last.calls, "set_active") :
             \E i \in Calls(last.calls, "add_plugin") :
                i < j /\ last.calls[i].r = "true"
       /\ Precedes(last.calls, "set_active", "patchbay_refresh")
       /\ Follows(last.calls, "set_active", "patchbay_refresh")
       /\ Follows(last.calls, "patchbay_refresh", "connect_out")
       /\ Follows(last.calls, "patchbay_refresh", "connect_in")
       /\ Follows(last.calls, "set_active", "connect_out")
       /\ Follows(last.calls, "set_active", "connect_in")
       /\ Precedes(last.calls, "connect_out", "connect_in")
       /\ Calls(last.calls, "connect_in") # { } => backend.supports_midi

\* a load that replaced a plugin has gone through every stage: it removed
\* the previous plugin, added, activated, refreshed and connected the audio
\* outputs and the MIDI input
C4_Witness ==
    /\ last.op = "load_plugin" /\ last.ok
    /\ \A name \in { "remove_plugin", "remove_all_plugins", "add_plugin",
                    "set_active", "patchbay_refresh", "connect_out",
                    "connect_in" } : Calls(last.calls, name) # { }
    /\ backend.audio_routed /\ backend.midi_routed

\* C5: after any sequence of load, unload, configure and shutdown, engine
\* removals failing or raising included, the engine hosts at most one
\* plugin, and a recorded plugin id is the id of the plugin the engine added
\* last, the one of the most recent successful load.
C5_OnePluginAndCurrentId ==
    /\ Len(engine.plugins) <= 1
    /\ backend.plugin_id # None =>
          /\ HasPlugin(engine, Get(backend.plugin_id))
          /\ Get(backend.plugin_id) = Len(engine.plugins) - 1

\* the engine rejected add_plugin in the operation that ended in s
AddWasRejected(s) ==
    \E i \in 1..Len(s.t.calls) :
       s.t.calls[i].call = "add_plugin" /\ s.t.calls[i].r = "false"

\* the load raised the engine's text as a CarlaHostError, returned nothing
\* and left no plugin recorded; the plugin hosted before is gone from the
\* engine when the engine carried out the removal
RejectionRaised(s, eb) ==
    /\ RaisedHostError(s)
    /\ Get(s.t.exc).msg = "Failed to load plugin"
    /\ Get(s.t.exc).text = GetLastError(eb)
    /\ s.t.ret = None
    /\ s.b.plugin_id = None
    /\ eb.remove_all = "ok" => s.e.plugins = << >>

\* the load either raised and returned nothing, or returned the payload of
\* the requested plugin, which is then the one recorded as loaded
CompletedOrRaised(s, req) ==
    IF Raised(s) THEN s.t.ret = None
    ELSE /\ s.t.ret # None
         /\ Get(s.t.ret).path = req.path
         /\ s.b.plugin_id # None
         /\ s.b.plugin_path = Some(req.path)

\* what the facade raises is what the backend raised
SameError(s, viaBackend) == s.t.exc = viaBackend.t.exc

LoadOutcome(s, req, eb) ==
    /\ CompletedOrRaised(s, req)
    /\ AddWasRejected(s) =>
          /\ RejectionRaised(s, eb)
          /\ SameError(s, BackendLoadPlugin(Begin, req.path, req.parameters,
                                            req.show_ui, eb))

\* C6: when the engine rejects add-plugin, load raises an error that carries
\* the engine's error text and reaches the caller of the facade as the
\* backend raised it; no plugin is returned or recorded as loaded, and the
\* plugin hosted before is not restored.  A load either completes with the
\* new plugin loaded or raises.
C6_AddRejectionRaises ==
    CanLoad => \A c \in LoadCases : LoadOutcome(DoLoadPlugin(c[1], c[2]),
                                                c[1], c[2])

\* a load has failed at add_plugin after removing the plugin hosted before:
\* nothing is recorded as loaded and the engine hosts nothing
C6_Witness ==
    /\ last.op = "load_plugin" /\ ~last.ok
    /\ \E i \in Calls(last.calls, "add_plugin") : last.calls[i].r = "false"
    /\ \E i \in Calls(last.calls, "remove_plugin") : last.calls[i].r = "true"
    /\ backend.plugin_id = None
    /\ engine.plugins = << >>

\* the requests a load refuses for their path: a file that does not exist,
\* an extension that is no plugin format
RefusedPaths ==
    { path \in Paths : ~PathExists(path) \/ ~CanHandlePath(path) }

\* the load raised before it touched the engine or the session
RefusedUntouched(s) ==
    /\ Raised(s)
    /\ s.t.calls = << >>
    /\ s.e = engine
    /\ s.b = [backend EXCEPT !.warnings = << >>]

\* C7: load of a path that does not exist, or whose extension is not a
\* supported plugin kind, raises before the engine is started and before any
\* remove or add call: engine, loaded plugin, parameter table and routing
\* flags are unchanged.
C7_BadPathRefusedEarly ==
    \A path \in RefusedPaths, show_ui \in BOOLEAN, eb \in LoadBehaviours :
       RefusedUntouched(DoLoadPlugin([Plain(path) EXCEPT !.show_ui = show_ui],
                                     eb))

\* a load has been refused without an engine call while a plugin is loaded
\* and routed: the session is as the load before left it
C7_Witness ==
    /\ last.op = "load_plugin" /\ ~last.ok /\ last.calls = << >>
    /\ backend.available
    /\ backend.plugin_id # None /\ backend.parameters # << >>
    /\ backend.audio_routed
    /\ HasPlugin(engine, Get(backend.plugin_id))

\* the unload returned with the session reset
SessionReset(s) ==
    /\ ~Raised(s)
    /\ s.b.plugin_id = None
    /\ s.b.plugin_path = None
    /\ s.b.parameters = << >>
    /\ ~s.b.supports_midi
    /\ ~s.b.midi_routed
    /\ ~s.b.audio_routed
    /\ ~s.b.ui_visible

\* every outcome of the two removals of unload
RemovalOutcomes ==
    { [Nominal EXCEPT !.remove_all = ra, !.remove = rp, !.error = text] :
        ra \in { "ok", "false", "raise" }, rp \in { "ok", "false", "raise" },
        text \in { "", "could not remove plugin" } }

\* C8: unload() resets the local session state whatever the engine does:
\* whether the bulk remove and the single-id remove succeed, return false or
\* raise, no plugin is recorded as loaded afterwards, the parameter table is
\* empty, the MIDI-capable flag and both routed flags are false, and nothing
\* is raised to the caller.
C8_UnloadAlwaysResets ==
    \A eb \in RemovalOutcomes \cup UnloadBehaviours :
       SessionReset(DoUnload(eb))

\* an unload has returned with the session reset although both removals
\* failed and the engine still hosts the plugin
C8_Witness ==
    /\ last.op = "unload" /\ last.ok
    /\ \E i \in Calls(last.calls, "remove_all_plugins") :
          last.calls[i].r # "true"
    /\ \E i \in Calls(last.calls, "remove_plugin") : last.calls[i].r = "raise"
    /\ engine.plugins # << >>
    /\ backend.plugin_id = None /\ backend.parameters = << >>
    /\ ~backend.supports_midi /\ ~backend.midi_routed /\ ~backend.audio_routed

\* the unload changed nothing: nothing raised, no engine call, engine and
\* session as before
Untouched(s) ==
    /\ ~Raised(s)
    /\ s.t.calls = << >>
    /\ s.e = engine
    /\ s.b = [backend EXCEPT !.warnings = << >>]

\* unload, started where the unload that ended in s left off
UnloadAfter(s, eb) == BackendUnload(Then(s), eb)

\* a second unload leaves what the first one left
Idempotent(s, eb) ==
    /\ ~Raised(UnloadAfter(s, eb))
    /\ UnloadAfter(s, eb).b = Then(s).b
    /\ UnloadAfter(s, eb).e = s.e

\* C9: unload() with no plugin loaded is a no-op: it raises nothing, issues
\* no remove call, does not start the engine and leaves the session state as
\* it was; a second unload() changes nothing after the first.
C9_UnloadWithoutPluginIsNoOp ==
    \A eb \in UnloadBehaviours :
       /\ backend.plugin_id = None => Untouched(DoUnload(eb))
       /\ Idempotent(DoUnload(eb), eb)

\* the engine behaviours in which only the routing goes wrong
RoutingBehaviours ==
    { eb \in LoadBehaviours :
        eb = [Nominal EXCEPT !.refresh = eb.refresh, !.deliver = eb.deliver,
                             !.connect = eb.connect] }

\* the warnings the auto-routing appends
RoutingWarnings ==
    { "Failed to connect MIDI port", "Unable to find an internal MIDI source",
      "No audio output target found", "Failed to connect audio port",
      "Unable to connect plugin audio outputs",
      "Failed to refresh Carla patchbay" }

\* the load returned the plugin and the session is valid; routing that did
\* not come about is reported by a warning
LoadedDespiteRouting(s, req) ==
    /\ ~Raised(s)
    /\ s.t.ret # None /\ Get(s.t.ret).path = req.path
    /\ s.b.plugin_id # None
    /\ s.b.parameters = CollectParameters(s)
    /\ ( ~s.b.audio_routed \/ (s.b.supports_midi /\ ~s.b.midi_routed) ) =>
          \E i \in 1..Len(s.b.warnings) : s.b.warnings[i] \in RoutingWarnings

\* C10: load never fails because of auto-routing: with no MIDI source or
\* audio target, with the plugin's group or ports never visible in the
\* cache, with a connect that returns false or raises, load returns the
\* loaded plugin, the session is valid, and the routing failure is an entry
\* of the warnings list.
C10_RoutingFailureOnlyWarns ==
    ( CanLoad /\ backend.available ) =>
       \A path \in { "/vst/SynthA.vst3", "/vst/FxB.DLL" },
          eb \in RoutingBehaviours :
          LoadedDespiteRouting(DoLoadPlugin(Plain(path), eb), Plain(path))

(***************************************************************************)
(* Auto-routing.                                                           *)
(***************************************************************************)
\* the ports of the engine's graph: those of the clients outside the
\* plugins and those of the hosted plugins
EnginePortsOf(group, ports) ==
    { [ group |-> group, id |-> ports[j].id, hints |-> ports[j].hints ] :
        j \in 1..Len(ports) }

EnginePorts(e) ==
    UNION { EnginePortsOf(ExternalClients(e.env)[i].id,
                          ExternalClients(e.env)[i].ports) :
              i \in 1..Len(ExternalClients(e.env)) }
    \cup
    UNION { EnginePortsOf(e.plugins[i].group,
                          PluginPorts(PluginBinary(e.plugins[i].path))) :
              i \in 1..Len(e.plugins) }

\* the group of the plugin that is loaded: the one the engine added last
LoadedGroup(e) == e.plugins[Len(e.plugins)].group

\* the engine has a port of that group and id that is a MIDI port, an input
\* if input is TRUE and an output otherwise
IsMidiPort(e, group, id, input) ==
    \E p \in EnginePorts(e) :
       /\ p.group = group /\ p.id = id
       /\ HasBit(p.hints, PATCH_PORT_TYPE_MIDI)
       /\ HasBit(p.hints, PATCH_PORT_IS_INPUT) = input

\* the connects issued after pre, on the way to post
ConnectsSince(pre, post) ==
    { post.t.calls[i].a :
        i \in { j \in (Len(pre.t.calls) + 1)..Len(post.t.calls) :
                  post.t.calls[j].call = "patchbay_connect" } }

\* a MIDI connect leads from a MIDI output of another group into a MIDI
\* input of the loaded plugin's group
MidiConnectOk(e, key) ==
    /\ Len(e.plugins) > 0
    /\ key[3] = LoadedGroup(e)
    /\ IsMidiPort(e, key[3], key[4], TRUE)
    /\ key[1] # LoadedGroup(e)
    /\ IsMidiPort(e, key[1], key[2], FALSE)

\* the cached graph of b holds a MIDI output c of a client without plugin id
\* and a MIDI input d of the loaded plugin's group
KeyboardAndSynth(b, e, c, d) ==
    /\ c.client.plugin_id < 0 /\ c.info.is_midi /\ ~c.info.is_input
    /\ Len(e.plugins) > 0 /\ d.group = LoadedGroup(e)
    /\ d.info.is_midi /\ d.info.is_input

\* what the claim asks of a run of the MIDI auto-routing from pre to post
MidiRoutingOk(pre, post) ==
    ( pre.b.plugin_id # None /\ pre.b.supports_midi /\ ~pre.b.midi_routed ) =>
       /\ \A key \in ConnectsSince(pre, post) : MidiConnectOk(post.e, key)
       /\ \A i, j \in 1..Len(AllPorts(post.b)) :
             KeyboardAndSynth(post.b, post.e, AllPorts(post.b)[i],
                              AllPorts(post.b)[j]) =>
                << AllPorts(post.b)[i].group, AllPorts(post.b)[i].port,
                   AllPorts(post.b)[j].group, AllPorts(post.b)[j].port >>
                  \in ConnectsSince(pre, post)

\* load_plugin up to its add_plugin, and up to its MIDI routing
LoadAdded(req, eb) == LoadReplace(EnsureEngine(Begin, eb), req.path, eb)

LoadBeforeMidi(req, eb) ==
    LoadRouteAudio(LoadActivate(LoadRecorded(LoadAdded(req, eb), req.path), eb),
                   eb)

\* the loads that get as far as the routing
RoutedLoads ==
    { c \in LoadCases :
        /\ PathExists(c[1].path) /\ CanHandlePath(c[1].path)
        /\ ~Raised(LoadAdded(c[1], c[2])) }

\* C11: every connect of the MIDI auto-routing, run by a load or ahead of a
\* note, leads from a MIDI output port of a group other than the loaded
\* plugin's into a MIDI input port of the loaded plugin's own group; and when
\* the cached graph holds a client without plugin id with a MIDI output and
\* the loaded plugin's group with a MIDI input, the connect from the one to
\* the other is issued.
C11_MidiConnectsIntoLoadedPlugin ==
    backend.available =>
       /\ \A eb \in RoutingBehaviours :
             MidiRoutingOk(Begin, EnsureMidiRouting(Begin, eb))
       /\ CanLoad =>
             \A c \in RoutedLoads :
                MidiRoutingOk(LoadBeforeMidi(c[1], c[2]),
                              LoadRouteMidi(LoadBeforeMidi(c[1], c[2]), c[2]))

\* the (source port, target port) pairs a run has tried to connect
ConnectAttempts(s) ==
    { s.t.calls[i].a : i \in Calls(s.t.calls, "patchbay_connect") }

\* a second run of the audio auto-routing right after the first
AudioRoutingAgain(first, eb) == EnsureAudioRouting(Then(first), eb)

NoAttemptRepeated(first, second) ==
    ConnectAttempts(first) \cap ConnectAttempts(second) = { }

\* C12: when the audio auto-routing runs twice in a row against the same
\* engine, the second run tries no connect between a pair of ports that the
\* first run has already tried, whether the connects of the first run
\* succeeded, returned false or raised.
C12_AudioRoutingAttemptsOnce ==
    \A eb \in RoutingBehaviours :
       NoAttemptRepeated(
         EnsureAudioRouting(Begin, eb),
         AudioRoutingAgain(EnsureAudioRouting(Begin, eb), eb))

(***************************************************************************)
(* The routed flags.                                                       *)
(***************************************************************************)
\* a routed flag that was set is no longer set after the step
RoutedFlagCleared ==
    \/ backend.midi_routed /\ ~backend'.midi_routed
    \/ backend.audio_routed /\ ~backend'.audio_routed

\* the step was an unload(), on its own or as the first part of shutdown()
ByUnload == last'.op \in { "unload", "shutdown" }

\* the step was a load_plugin() whose add_plugin succeeded
ByLoadThatAdded ==
    /\ last'.op = "load_plugin"
    /\ \E i \in 1..Len(last'.calls) :
          last'.calls[i] = [ call |-> "add_plugin", r |-> "true" ]

\* C13 as stated: a routed flag that is set stays set across every
\* operation and graph event, and only unload() sets it back to false.
C13_OnlyUnloadClearsRouted == [][ RoutedFlagCleared => ByUnload ]_vars

\* C13: a routed flag that is set stays set across set_parameter, notes,
\* configure, loads that fail before their plugin is added and graph events,
\* the removal of the connection included; the only steps that set it back
\* to false are unload(), also as part of shutdown(), and a load_plugin()
\* whose add_plugin succeeded, which resets both flags before it routes the
\* new plugin.
C13_RoutedFlagsSticky ==
    [][ RoutedFlagCleared => ( ByUnload \/ ByLoadThatAdded ) ]_vars

\* both flags are still set after the callbacks that took the last
\* connection of the graph away
C13_Witness ==
    /\ last.op = "engine_callback"
    /\ backend.midi_routed /\ backend.audio_routed
    /\ backend.patch_connections = { }
    /\ engine.conns = EmptyDict

(***************************************************************************)
(* Notes.                                                                  *)
(***************************************************************************)
NoteOperations == { "note_on", "note_off", "play_note", "note_timer" }

\* C19: a note operation that has sent a MIDI note to the engine leaves a
\* session in which a plugin is loaded, the plugin is MIDI-capable and
\* midi_routed is true: the routing was in place, or was made ahead of the
\* send.
C19_NotesOnlyWhenMidiRouted ==
    ( /\ last.op \in NoteOperations
      /\ \E i \in 1..Len(last.calls) : last.calls[i].call = "send_midi_note" )
    => ( /\ backend.plugin_id # None
         /\ backend.supports_midi
         /\ backend.midi_routed )

(***************************************************************************)
(* Audio drivers.                                                          *)
(***************************************************************************)
\* the engine_init calls of an operation, in order
InitCalls(s) == SelectSeq(s.t.calls, LAMBDA c : c.call = "engine_init")

\* the preference order: the caller's list, then the built-in defaults, one
\* entry for the names that are equal ignoring case
PreferenceOrder(b) ==
    DedupLower(b.user_preferred_drivers \o PREFERRED_DRIVERS, { })

Present(order, reported) == SelectSeq(order, LAMBDA d : InSeq(d, reported))

ForcedAbsent(b, e) ==
    b.forced_driver # None /\ ~InSeq(Get(b.forced_driver), e.drivers)

\* the driver that is to be tried first, None where there is none
SelectedDriver(b, e) ==
    IF b.forced_driver # None
    THEN ( IF ForcedAbsent(b, e) THEN None ELSE b.forced_driver )
    ELSE IF Present(PreferenceOrder(b), e.drivers) # << >>
    THEN Some(Head(Present(PreferenceOrder(b), e.drivers)))
    ELSE IF e.drivers # << >> THEN Some(Head(e.drivers))
    ELSE None

\* the engine is to be started: the backend is there and the engine is not
\* running
ToBeStarted == backend.available /\ ~backend.engine_running

FirstTried(s) ==
    IF InitCalls(s) = << >> THEN None ELSE Some(InitCalls(s)[1].p)

\* an error of the selection: raised ahead of every attempt
SelectionError(s) == RaisedHostError(s) /\ InitCalls(s) = << >>

\* C14 as stated: the driver tried first is the forced driver if the engine
\* reports it, else the first entry of the preference order that the engine
\* reports, else the first reported driver, and the selection raises only
\* when a forced driver is set and not reported.
C14_SelectionErrorOnlyForcedAbsent ==
    ToBeStarted =>
       \A eb \in InitBehaviours :
          /\ FirstTried(EnsureEngine(Begin, eb)) = SelectedDriver(backend, engine)
          /\ SelectionError(EnsureEngine(Begin, eb))
                => ForcedAbsent(backend, engine)

\* C14: the driver tried first is a function of the forced driver, the
\* caller's preference list and the drivers the engine reports: the forced
\* driver if it is reported, else the first entry of the preference order
\* that is reported, else the first reported driver; the selection raises,
\* ahead of every attempt, when a forced driver is set and not reported and
\* when the engine reports no driver at all, and in no other case.
C14_DriverSelection ==
    ToBeStarted =>
       \A eb \in InitBehaviours :
          /\ FirstTried(EnsureEngine(Begin, eb)) = SelectedDriver(backend, engine)
          /\ SelectionError(EnsureEngine(Begin, eb))
                <=> ( ForcedAbsent(backend, engine) \/ engine.drivers = << >> )

\* a load has started the engine on the forced driver, which the preference
\* order and the report of the engine both put second
C14_Witness ==
    /\ last.op = "load_plugin" /\ last.ok
    /\ last.calls[1] = [ call |-> "engine_init", r |-> "true" ]
    /\ backend.forced_driver = Some("Dummy")
    /\ backend.driver_name = Some("Dummy")
    /\ engine.drivers = << "JACK", "Dummy" >>

\* C15: with a forced driver that the engine does not report, the start of
\* the engine raises a configuration error that names the forced driver and
\* lists the drivers the engine reports; no engine_init is issued, for no
\* driver, the engine is as it was and not running, no driver name is
\* recorded and no idle thread is started.
C15_ForcedAbsentFailsAtOnce ==
    ( ToBeStarted /\ ForcedAbsent(backend, engine) ) =>
       \A eb \in InitBehaviours :
          /\ RaisedHostError(EnsureEngine(Begin, eb))
          /\ Get(EnsureEngine(Begin, eb).t.exc).detail = engine.drivers
          /\ engine.drivers # << >> =>
                /\ Get(EnsureEngine(Begin, eb).t.exc).msg
                      = "Requested audio driver not available"
                /\ Get(EnsureEngine(Begin, eb).t.exc).text
                      = Get(backend.forced_driver)
          /\ EnsureEngine(Begin, eb).t.calls = << >>
          /\ EnsureEngine(Begin, eb).e = engine
          /\ ~EnsureEngine(Begin, eb).b.engine_running
          /\ EnsureEngine(Begin, eb).b.driver_name = None
          /\ ~EnsureEngine(Begin, eb).b.idle_thread

\* a load has failed for the forced driver ASIO, which the engine does not
\* list among the drivers it reports, without a call to the engine
C15_Witness ==
    /\ last = [ op |-> "load_plugin", ok |-> FALSE, calls |-> << >> ]
    /\ backend.forced_driver = Some("ASIO")
    /\ engine.drivers = << "JACK", "Dummy" >>
    /\ ~backend.engine_running /\ ~backend.idle_thread
    /\ ~engine.open

\* the candidates: of the forced driver, the caller's list and the built-in
\* defaults, one entry for the names that are equal ignoring case, the ones
\* the engine reports, and after them the other drivers it reports
CandidateNames(b) ==
    DedupLower(b.forced_driver \o b.user_preferred_drivers \o PREFERRED_DRIVERS,
               { })

Candidates(b, e) ==
    Present(CandidateNames(b), e.drivers)
    \o SelectSeq(e.drivers, LAMBDA d : ~InSeq(d, CandidateNames(b)))

\* the attempts are the first candidates, in their order, and none but the
\* last has succeeded
AttemptsInOrder(tried, candidates) ==
    /\ tried # << >>
    /\ Len(tried) <= Len(candidates)
    /\ \A i \in 1..Len(tried) :
          /\ tried[i].p = candidates[i]
          /\ i < Len(tried) => tried[i].r # "true"

\* what the error reports of the attempts
AttemptReport(tried, eb) ==
    [ i \in 1..Len(tried) |->
        [ driver |-> tried[i].p,
          message |-> IF tried[i].r = "raise" THEN "engine_init raised"
                      ELSE eb.error ] ]

StartedOn(s, tried) ==
    /\ ~Raised(s)
    /\ s.b.engine_running
    /\ s.b.driver_name = Some(tried[Len(tried)].p)
    /\ s.b.idle_thread
    /\ s.e.open

EveryDriverFailed(s, tried, candidates, eb) ==
    /\ Len(tried) = Len(candidates)
    /\ RaisedHostError(s)
    /\ Get(s.t.exc).msg = "Failed to initialise Carla engine"
    /\ Get(s.t.exc).detail = AttemptReport(tried, eb)
    /\ ~s.b.engine_running
    /\ s.b.driver_name = None
    /\ ~s.b.idle_thread

StartOutcome(s, candidates, eb) ==
    /\ s.t.calls = InitCalls(s)
    /\ AttemptsInOrder(InitCalls(s), candidates)
    /\ IF InitCalls(s)[Len(InitCalls(s))].r = "true"
       THEN StartedOn(s, InitCalls(s))
       ELSE EveryDriverFailed(s, InitCalls(s), candidates, eb)

\* C16: the start of the engine issues engine_init for the candidates one
\* after another, in their order and only for drivers the engine reports,
\* and stops at the first that succeeds, on which the engine then runs;
\* when every candidate has failed it raises a configuration error that
\* names each attempted driver with the error reported for it, the engine
\* is not running, no driver name is recorded and no idle thread is started.
C16_DriversTriedInOrder ==
    ( /\ ToBeStarted
      /\ ~ForcedAbsent(backend, engine)
      /\ engine.drivers # << >> ) =>
       \A eb \in InitBehaviours :
          StartOutcome(EnsureEngine(Begin, eb), Candidates(backend, engine), eb)

\* a load has failed after the two drivers the engine reports were tried,
\* the preferred Dummy ahead of JACK, and neither was initialised
C16_Witness ==
    /\ last = [ op |-> "load_plugin", ok |-> FALSE,
                calls |-> << [ call |-> "engine_init", r |-> "raise" ],
                             [ call |-> "engine_init", r |-> "false" ] >> ]
    /\ backend.user_preferred_drivers = << "Dummy", "JACK" >>
    /\ engine.drivers = << "JACK", "Dummy" >>
    /\ ~backend.engine_running /\ backend.driver_name = None
    /\ ~backend.idle_thread

(***************************************************************************)
(* Stopping the engine.                                                    *)
(***************************************************************************)
EngineSettings(b) ==
    << b.forced_driver, b.user_preferred_drivers, b.preferred_drivers,
       b.engine_sample_rate, b.engine_buffer_size >>

\* the idle thread is told to stop and joined, then the engine is closed
StoppedThenClosed(calls) ==
    /\ Len(calls) = 2
    /\ calls[1].call = "stop_idle_thread"
    /\ calls[2].call = "engine_close"

\* the driver on which a load that follows starts the engine
DriverOfNextStart(b, e) ==
    FirstTried(FacadeLoadPlugin(BeginAt(b, e), "/vst/SynthA.vst3", << >>,
                                FALSE, Nominal))

ConfigureStops ==
    last'.op = "configure_audio" =>
       /\ ~backend'.engine_running
       /\ backend'.driver_name = None
       /\ ~backend'.idle_thread
       /\ backend.engine_running =>
             /\ StoppedThenClosed(last'.calls)
             /\ last'.calls[2].r = "true" => ~engine'.open
       /\ DriverOfNextStart(backend', engine') = SelectedDriver(backend', engine')

ThreadStoppedBeforeClose(calls) ==
    /\ Len(calls) >= 2
    /\ calls[Len(calls) - 1].call = "stop_idle_thread"
    /\ calls[Len(calls)].call = "engine_close"
    /\ \A i \in 1..(Len(calls) - 1) : calls[i].call # "engine_close"

\* C18: shutdown on a running engine first stops the idle thread, which it
\* joins for a bounded time, and only then closes the engine; it returns,
\* also when the thread has not exited by the end of the wait, and
\* afterwards no plugin is loaded, the engine is not running and no idle
\* thread is registered.
C18_ShutdownStopsThreadThenEngine ==
    [][ last'.op = "shutdown" =>
          /\ last'.ok
          /\ backend'.plugin_id = None
          /\ ~backend'.engine_running
          /\ ~backend'.idle_thread
          /\ backend.engine_running => ThreadStoppedBeforeClose(last'.calls) ]_vars

\* shutdown has returned with a plugin loaded before it, although the idle
\* thread had not exited when the wait for it ended
C18_Witness ==
    /\ last.op = "shutdown" /\ last.ok
    /\ Len(last.calls) > 2
    /\ last.calls[Len(last.calls) - 1]
          = [ call |-> "stop_idle_thread", r |-> "timeout" ]
    /\ last.calls[Len(last.calls)] = [ call |-> "engine_close", r |-> "true" ]
    /\ backend.plugin_id = None
    /\ ~backend.engine_running /\ ~backend.idle_thread
    /\ ~engine.open

(***************************************************************************)
(* Notes and the locks.                                                    *)
(***************************************************************************)
\* C20: a caller's thread that stands between the check of the loaded
\* plugin and the send of the note to the engine, inside note_on or
\* note_off, does not hold the lock of the facade, so that an unload() of
\* another caller can run ahead of the send.
C20_SendOutsideFacadeLock ==
    \A thread \in Callers :
       sched.pc[thread] = "send" => sched.facade # Some(thread)

(***************************************************************************)
(* The graph cache.                                                        *)
(***************************************************************************)
\* the tuples the cache holds as connected although no connection id has
\* them
Orphans(b) ==
    { key \in b.patch_connections :
        \A i \in 1..Len(b.patch_connection_ids) :
           b.patch_connection_ids[i].v # key }

\* the plugins whose group is recorded as the client
PluginsOfGroup(b, client_id) ==
    { b.plugin_patch_groups[i].k :
        i \in { j \in 1..Len(b.plugin_patch_groups) :
                  b.plugin_patch_groups[j].v = client_id } }

Entries(d, key) == Cardinality({ i \in 1..Len(d) : d[i].k = key })

IsAddOfKnown(b, ev) ==
    \/ /\ ev.opcode = CB_PATCHBAY_CLIENT_ADDED
       /\ DictHas(b.patch_clients, ev.client_id)
    \/ /\ ev.opcode \in { CB_PATCHBAY_PORT_ADDED, CB_PATCHBAY_PORT_CHANGED }
       /\ DictHas(PortsOf(b, ev.client_id), ev.value1)
    \/ /\ ev.opcode = CB_PATCHBAY_CONNECTION_ADDED
       /\ DictHas(b.patch_connection_ids, ev.client_id)

\* the entry of the id is the one of the event, it is there once, and
\* nothing of the entry it has replaced is left
ReplacedInPlace(pre, ev, post) ==
    CASE ev.opcode = CB_PATCHBAY_CLIENT_ADDED ->
           /\ Entries(post.patch_clients, ev.client_id) = 1
           /\ Len(post.patch_clients) = Len(pre.patch_clients)
           /\ DictGet(post.patch_clients, ev.client_id).plugin_id = ev.value2
           /\ PluginsOfGroup(post, ev.client_id) \subseteq { ev.value2 }
      [] ev.opcode \in { CB_PATCHBAY_PORT_ADDED, CB_PATCHBAY_PORT_CHANGED } ->
           /\ Entries(PortsOf(post, ev.client_id), ev.value1) = 1
           /\ Len(PortsOf(post, ev.client_id)) = Len(PortsOf(pre, ev.client_id))
           /\ DictGet(PortsOf(post, ev.client_id), ev.value1).hints = ev.value2
      [] ev.opcode = CB_PATCHBAY_CONNECTION_ADDED ->
           /\ Entries(post.patch_connection_ids, ev.client_id) = 1
           /\ Len(post.patch_connection_ids) = Len(pre.patch_connection_ids)
           /\ Orphans(post) \subseteq Orphans(pre)
      [] OTHER -> TRUE

AppliedTwice(b, ev) ==
    HandleEngineCallback(HandleEngineCallback(b, ev), ev)
       = HandleEngineCallback(b, ev)

\* C21: for every state of the cache and every event, the event applied
\* twice in a row leaves the cache as the event applied once leaves it, and
\* the addition of a client, a port or a connection whose id is known
\* replaces the entry of the id in place: no second entry and nothing of
\* the replaced entry is left behind.
C21_HandlersIdempotentInPlace ==
    \A ev \in CacheEvents :
       /\ AppliedTwice(backend, ev)
       /\ IsAddOfKnown(backend, ev)
             => ReplacedInPlace(backend, ev, HandleEngineCallback(backend, ev))

\* the tuples the cache holds, in the set of the connected and under the
\* connection ids
TuplesHeld(b) ==
    b.patch_connections
    \cup { b.patch_connection_ids[i].v : i \in 1..Len(b.patch_connection_ids) }

ClientGone(b, client_id) ==
    /\ ~DictHas(b.patch_clients, client_id)
    /\ ~DictHas(b.patch_ports, client_id)
    /\ \A key \in TuplesHeld(b) : key[1] # client_id /\ key[3] # client_id

PortGone(b, client_id, port_id) ==
    /\ ~DictHas(PortsOf(b, client_id), port_id)
    /\ \A key \in TuplesHeld(b) :
          /\ ~( key[1] = client_id /\ key[2] = port_id )
          /\ ~( key[3] = client_id /\ key[4] = port_id )

\* C22: from every state of the cache, the removal of a client leaves no
\* entry of the client, no port of it and no connection that has it as
\* source or as target, and the removal of a port leaves no connection
\* that has the port as source or as target.
C22_RemovalCascades ==
    \A client_id \in CacheClients :
       /\ ClientGone(HandleEngineCallback(
                       backend, Event(CB_PATCHBAY_CLIENT_REMOVED, client_id,
                                      0, 0, 0, "")),
                     client_id)
       /\ PortGone(HandleEngineCallback(
                     backend, Event(CB_PATCHBAY_PORT_REMOVED, client_id,
                                    0, 0, 0, "")),
                   client_id, 0)

\* each connection id has one tuple, no tuple is under two ids, and the
\* connected tuples are the tuples of the ids
TablesAgree(b) ==
    /\ \A id \in DictKeys(b.patch_connection_ids) :
          Entries(b.patch_connection_ids, id) = 1
    /\ \A i, j \in 1..Len(b.patch_connection_ids) :
          b.patch_connection_ids[i].v = b.patch_connection_ids[j].v => i = j
    /\ b.patch_connections
          = { b.patch_connection_ids[i].v : i \in 1..Len(b.patch_connection_ids) }

\* C23: in every reachable state of the cache each recorded connection id
\* has exactly one tuple, no tuple is held under two connection ids, and
\* the set of the connected tuples is the set of the tuples of the recorded
\* ids.
C23_ConnectionTablesAgree == TablesAgree(backend)

(***************************************************************************)
(* The session and the engine.                                             *)
(***************************************************************************)
\* nothing of a session is recorded
SessionCleared(b) ==
    /\ b.parameters = << >>
    /\ b.plugin_path = None
    /\ ~b.supports_midi
    /\ ~b.midi_routed
    /\ ~b.audio_routed
    /\ ~b.ui_visible

\* C24: whenever no plugin is recorded as loaded, at the start, after
\* unload() and after a load that raised, the parameter table is empty, no
\* plugin path is recorded and supports_midi, midi_routed, audio_routed and
\* ui_visible are false.
C24_NoPluginNoSession == backend.plugin_id = None => SessionCleared(backend)

\* C25: whenever a plugin is recorded as loaded the engine is running and
\* open: no operation leaves a loaded plugin on a stopped engine.
C25_LoadedPluginOnRunningEngine ==
    backend.plugin_id # None => ( backend.engine_running /\ engine.open )

(***************************************************************************)
(* The routing routines in the fuller graph.                               *)
(***************************************************************************)
\* the patchbay_connect calls of a run, in the order they were issued
Connects(s) == SelectSeq(s.t.calls, LAMBDA c : c.call = "patchbay_connect")

\* the sources a MIDI run may take: the ordered selection without the
\* ports of the plugin's own group
EligibleSources(b) ==
    SelectSeq(SelectMidiSources(b), LAMBDA p : p[1] # PluginGroup(b))

\* the MIDI inputs of the plugin's group that no cached connection leads into
UnconnectedMidiInputs(b) ==
    SelectSeq(MidiInputs(b),
              LAMBDA port_id : ~\E conn \in b.patch_connections :
                                   conn[3] = PluginGroup(b) /\ conn[4] = port_id)

MidiRunConnectsOnce(s, eb) ==
    LET r == EnsureMidiRouting(s, eb)
        cs == Connects(r)
    IN  /\ Cardinality({ i \in 1..Len(cs) : cs[i].r = "true" }) <= 1
        /\ \A i, j \in 1..Len(cs) : ( i < j ) => cs[i].r # "true"
        /\ ( cs # << >> /\ r.t.nrefresh = 0 ) =>
              /\ EligibleSources(s.b) # << >>
              /\ UnconnectedMidiInputs(s.b) # << >>
              /\ cs[1].a = Head(EligibleSources(s.b))
                           \o << PluginGroup(s.b),
                                 Head(UnconnectedMidiInputs(s.b)) >>

\* C26: one run of MIDI auto-routing makes at most one connection: its first
\* connect joins the top-scoring eligible source to the plugin's first MIDI
\* input without a connection, and no connect follows one that succeeded.
C26_MidiRoutingConnectsOnce ==
    \A eb \in GraphBehaviours : MidiRunConnectsOnce(Begin, eb)

\* the score the sort key gives a selected (group, port) of the cache
MidiScore(b, pair) ==
    MidiSourceSortKey(ClientOrDefault(b, pair[1]),
                      DictGet(PortsOf(b, pair[1]), pair[2]), pair[1])[1]

AudioScore(b, pair) ==
    AudioTargetSortKey(ClientOrDefault(b, pair[1]),
                       DictGet(PortsOf(b, pair[1]), pair[2]), pair[1])[1]

DescendingScore(b, pairs, Score(_, _)) ==
    \A i, j \in 1..Len(pairs) :
        ( i < j ) => Score(b, pairs[i]) >= Score(b, pairs[j])

HigherGroupFirst(b, pairs, Score(_, _)) ==
    \A i, j \in 1..Len(pairs) :
        ( i < j /\ Score(b, pairs[i]) = Score(b, pairs[j]) ) =>
            pairs[i][1] >= pairs[j][1]

\* C27: the MIDI sources and the audio targets are selected in descending
\* score, and of two candidates with the same score the one with the higher
\* group id comes first.
C27_SelectionOrder ==
    /\ DescendingScore(backend, SelectMidiSources(backend), MidiScore)
    /\ HigherGroupFirst(backend, SelectMidiSources(backend), MidiScore)
    /\ DescendingScore(backend, SelectAudioTargets(backend), AudioScore)
    /\ HigherGroupFirst(backend, SelectAudioTargets(backend), AudioScore)

\* the full refreshes a run asked for
Refreshes(s) == SelectSeq(s.t.calls, LAMBDA c : c.call = "patchbay_refresh")

\* after a run the plugin's group or the ports the run looks for are still
\* not in the cache
MidiStillMissing(r) == PluginGroup(r.b) = -1 \/ MidiInputs(r.b) = << >>

AudioStillMissing(r) == PluginGroup(r.b) = -1 \/ AudioOutputs(r.b) = << >>

GivesUpWithWarning(r, missing) ==
    /\ Len(Refreshes(r)) <= 3
    /\ ~Raised(r)
    /\ ( Len(Refreshes(r)) = 3 /\ missing ) =>
          /\ Connects(r) = << >>
          /\ r.b.warnings # << >>

\* C28: when the plugin's group or its ports are not in the cache, a routing
\* run refreshes and looks again, at most 3 times; if they are still missing
\* it gives up, raises nothing and leaves a warning in the warnings list.
C28_GivesUpAfterThreeRefreshes ==
    \A eb \in GraphBehaviours :
        /\ GivesUpWithWarning(EnsureMidiRouting(Begin, eb),
                              MidiStillMissing(EnsureMidiRouting(Begin, eb)))
        /\ GivesUpWithWarning(EnsureAudioRouting(Begin, eb),
                              AudioStillMissing(EnsureAudioRouting(Begin, eb)))

\* the cache holds a connection into a MIDI input port of the plugin's group
MidiConnectionCached(b) ==
    \E conn \in b.patch_connections :
        /\ conn[3] = PluginGroup(b)
        /\ \E i \in 1..Len(MidiInputs(b)) : MidiInputs(b)[i] = conn[4]

\* the cache holds a connection from an audio output of the plugin's group
\* to an audio port
AudioConnectionCached(b) ==
    \E conn \in b.patch_connections :
        /\ conn[1] = PluginGroup(b)
        /\ \E i \in 1..Len(AudioOutputs(b)) : AudioOutputs(b)[i] = conn[2]
        /\ PortIsAudio(b, conn[3], conn[4])

\* the run found the plugin routed: the flag went up without a connect
FoundMidiRouted(s, r) == ~s.b.midi_routed /\ r.b.midi_routed /\ Connects(r) = << >>

FoundAudioRouted(s, r) == ~s.b.audio_routed /\ r.b.audio_routed /\ Connects(r) = << >>

\* C29: a routing run takes the plugin for routed already, and issues no
\* connect, only when the cache holds a connection of the right kind:
\* midi_routed for a connection into a MIDI input of the plugin's group,
\* audio_routed for a connection from an audio output of the plugin's group
\* to an audio port.
C29_RoutedOnlyByConnectionOfKind ==
    \A eb \in GraphBehaviours :
        /\ FoundMidiRouted(Begin, EnsureMidiRouting(Begin, eb)) =>
              MidiConnectionCached(EnsureMidiRouting(Begin, eb).b)
        /\ FoundAudioRouted(Begin, EnsureAudioRouting(Begin, eb)) =>
              AudioConnectionCached(EnsureAudioRouting(Begin, eb).b)

\* the k-th smallest of a set of port ids
NthSmallest(ids, k) ==
    CHOOSE x \in ids : Cardinality({ y \in ids : y < x }) = k - 1

\* the (output, target) pairs of a stereo routing in the cache b: the k-th
\* audio output in ascending id with the k-th selected target, k up to 2
StereoPairs(b) ==
    LET outs == { AudioOutputs(b)[i] : i \in 1..Len(AudioOutputs(b)) }
        targets == SelectAudioTargets(b)
        n == IF Cardinality(outs) < Len(targets)
             THEN Cardinality(outs) ELSE Len(targets)
    IN  [ k \in 1..(IF n < 2 THEN n ELSE 2) |->
            << PluginGroup(b), NthSmallest(outs, k) >> \o targets[k] ]

\* an input audio port of a client that is no plugin and not the plugin's group
IsAudioTarget(b, group, port) ==
    /\ group # PluginGroup(b)
    /\ ClientOrDefault(b, group).plugin_id < 0
    /\ DictHas(PortsOf(b, group), port)
    /\ DictGet(PortsOf(b, group), port).is_input
    /\ DictGet(PortsOf(b, group), port).is_audio

\* the run starts with everything it needs in the cache and nothing routed
AudioRunConnects(s) ==
    /\ s.b.plugin_id # None /\ ~s.b.audio_routed
    /\ AudioOutputs(s.b) # << >>
    /\ SelectAudioTargets(s.b) # << >>
    /\ ~AudioConnectionCached(s.b)

AudioRunPairsStereo(s, eb) ==
    LET r == EnsureAudioRouting(s, eb)
        cs == Connects(r)
    IN  /\ Len(cs) <= 2
        /\ \A i \in 1..Len(cs) :
              /\ \E k \in 1..Len(StereoPairs(r.b)) :
                    cs[i].a = StereoPairs(r.b)[k]
              /\ IsAudioTarget(r.b, cs[i].a[3], cs[i].a[4])
              /\ r.t.nrefresh = 0 => cs[i].a \notin s.b.patch_connections
        /\ \A i, j \in 1..Len(cs) : ( i < j ) => cs[i].a[2] < cs[j].a[2]
        /\ AudioRunConnects(s) =>
              [ i \in 1..Len(cs) |-> cs[i].a ] = StereoPairs(s.b)

\* C30: one run of audio auto-routing issues at most two connects: the
\* plugin's audio outputs in ascending port id are paired position by
\* position with the top-ranked targets, every target is an input audio port
\* of a client without a plugin id outside the plugin's group, and no connect
\* is issued for a pair the cache already holds.
C30_AudioRoutingPairsStereo ==
    \A eb \in GraphBehaviours : AudioRunPairsStereo(Begin, eb)

\* a vocoder with three audio outputs is routed in the graph with three
\* targets: two connects were issued, both succeeded
C30_Witness ==
    /\ last.op = "load_plugin" /\ last.ok
    /\ backend.plugin_path = Some("/vst/VocoderC.vst3")
    /\ Len(AudioOutputs(backend)) = 3
    /\ Len(SelectAudioTargets(backend)) = 3
    /\ backend.audio_routed
    /\ Cardinality({ i \in 1..Len(last.calls) :
                       /\ last.calls[i].call = "connect_out"
                       /\ last.calls[i].r = "true" }) = 2

(***************************************************************************)
(* The selections as functions of the cache.                               *)
(***************************************************************************)
\* a dict as the mapping it holds, without the order of insertion
Mapping(d) == { << d[i].k, d[i].v >> : i \in 1..Len(d) }

\* the port table as a mapping of mappings
PortMappings(ports) == { << ports[i].k, Mapping(ports[i].v) >> : i \in 1..Len(ports) }

\* the cache holds the clients, ports and connections that were there when
\* the recorded selection was made
SameContents(b, seen) ==
    /\ Mapping(b.patch_clients) = Mapping(seen.clients)
    /\ PortMappings(b.patch_ports) = PortMappings(seen.ports)
    /\ b.patch_connections = seen.connections

\* the cache is, order of insertion included, the one of the recorded selection
SameTables(b, seen) ==
    /\ b.patch_clients = seen.clients
    /\ b.patch_ports = seen.ports
    /\ b.patch_connections = seen.connections

\* C31: the MIDI source selection and the audio target selection depend on
\* nothing but the clients, ports and connections the cache holds: a
\* selection on a cache with the same contents as the one of an earlier
\* selection returns the same ordered lists.
C31_SelectionDeterministic ==
    ( last.op = "select" /\ SameContents(backend, last) ) =>
        /\ SelectMidiSources(backend) = last.sources
        /\ SelectAudioTargets(backend) = last.targets

(***************************************************************************)
(* The idle thread.                                                        *)
(***************************************************************************)
\* the idle threads that are inside engine_idle
Ticking == { i \in 1..Len(sched.idle) : sched.idle[i].pc = "tick" }

\* the thread the backend holds is alive and no other idle thread is
OneIdleThread == Len(sched.idle) = 1 /\ ~sched.idle[1].stop

\* C32: while the running flag is true exactly one idle thread exists: it is
\* alive, its stop event is not set, and so it goes on calling engine_idle.
C32_IdleThreadWhileRunning == backend.engine_running => OneIdleThread

\* a thread enters engine_idle in this step
Invokes(i) ==
    /\ i \in 1..Len(sched.idle) /\ i \in 1..Len(sched'.idle)
    /\ Len(sched'.idle) = Len(sched.idle)
    /\ sched.idle[i].pc = "check" /\ sched'.idle[i].pc = "tick"

NoIdleCallOnClosedEngine == \A i \in 1..MaxIdleThreads : Invokes(i) => engine.open

OneThreadTicks == Cardinality(Ticking) <= 1

\* C33: no idle thread enters engine_idle on an engine that shutdown() or
\* configure() has closed, also after a join that ran out, and never are two
\* idle threads inside engine_idle at once.
C33_IdleNeverOnClosedEngineNorTwice ==
    [][ NoIdleCallOnClosedEngine /\ OneThreadTicks' ]_vars

(***************************************************************************)
(* The tables of the cache.                                                *)
(***************************************************************************)
\* every plugin id leads to a client of the cache that carries this plugin
\* id, and no group is the group of two plugin ids
GroupsAgree(b) ==
    /\ \A i \in 1..Len(b.plugin_patch_groups) :
          LET plugin_id == b.plugin_patch_groups[i].k
              group == b.plugin_patch_groups[i].v
          IN  /\ DictHas(b.patch_clients, group)
              /\ DictGet(b.patch_clients, group).plugin_id = plugin_id
    /\ \A i, j \in 1..Len(b.plugin_patch_groups) :
          ( b.plugin_patch_groups[i].v = b.plugin_patch_groups[j].v ) => i = j

\* C34: in every reachable state of the cache the plugin-to-group table
\* agrees with the client table: plugin id p leads to group g only if
\* client g is cached with plugin id p, and no two plugin ids lead to one
\* group, also after a client was added again or changed with another or
\* no plugin id.
C34_PluginGroupsAgree == GroupsAgree(backend)

\* the tables of the cache
Tables(b) ==
    << b.patch_clients, b.patch_ports, b.patch_connections,
       b.patch_connection_ids, b.plugin_patch_groups >>

\* the step is a callback of the engine, applied by its handler
CallbackStep == sched' = sched /\ last'.op = "engine_callback"

\* C35: every callback whose handler changes a table of the cache sets the
\* signal of the cache before the handler returns.
C35_MutationSetsSignal ==
    [][ ( CallbackStep /\ Tables(backend') # Tables(backend) ) =>
           backend'.patch_update_event ]_vars

(***************************************************************************)
(* Operations leave the cache to the callbacks.                            *)
(***************************************************************************)
EmptyTables == << EmptyDict, EmptyDict, { }, EmptyDict, EmptyDict >>

\* what load, unload, set_parameter and the note operations come to from
\* the present state under the engine behaviour eb
Outcomes(eb) ==
    { DoUnload(eb), DoSetParameter(IntId(0), 300, eb), DoNoteOn(60, 80, eb),
      DoNoteOff(60, eb), DoPlayNote(60, 80, 1, eb) }
    \cup ( IF CanLoad THEN { DoLoadPlugin(Plain("/vst/SynthA.vst3"), eb) }
           ELSE { } )

\* the tuples of the connects of the operation that the engine accepted
Connected(s) ==
    { Connects(s)[i].a : i \in { j \in 1..Len(Connects(s)) :
                                   Connects(s)[j].r = "true" } }

\* the tables as the replay of the engine's graph fills the cleared cache,
\* the graph being the one from before the connects of the operation
Replayed(s) ==
    LET e == [s.e EXCEPT !.conns = SelectSeq(@, LAMBDA c : c.v \notin Connected(s))]
    IN  Tables(DeliverAll([backend EXCEPT !.patch_clients = EmptyDict,
                                          !.patch_ports = EmptyDict,
                                          !.patch_connections = { },
                                          !.patch_connection_ids = EmptyDict,
                                          !.plugin_patch_groups = EmptyDict],
                          ReplayClients(e) \o ReplayPorts(e)
                            \o ReplayConnections(e)))

\* C36: the tables of the cache change only by callbacks and by the
\* clearing of a full refresh: with the callbacks held back an operation
\* leaves them as they were or empty, with the replay delivered they hold
\* what the engine replayed, and the tuple of a successful connect is not
\* in the cache until its connection-added callback arrives.
C36_CacheWrittenByCallbacksOnly ==
    /\ \A s \in Outcomes(HeldBack) :
          Tables(s.b) \in { Tables(backend), EmptyTables }
    /\ \A s \in Outcomes(ReplayOnly) :
          /\ Tables(s.b) \in { Tables(backend), EmptyTables, Replayed(s) }
          /\ Connected(s) \cap s.b.patch_connections = { }

\* a load has connected the plugin in the engine and the cache holds none of
\* these connections; their callbacks are still to come
C36_Witness ==
    /\ last.op = "load_plugin" /\ last.ok
    /\ \E i \in 1..Len(last.calls) :
          last.calls[i].call = "connect_out" /\ last.calls[i].r = "true"
    /\ backend.audio_routed
    /\ engine.conns # EmptyDict
    /\ backend.patch_connections = { }
    /\ backend.patch_ports # EmptyDict

(***************************************************************************)
(* The locks.                                                              *)
(***************************************************************************)
CallbackThreads == { "engine", "idler" }

HandlersTakeCacheLockOnly ==
    /\ \A i \in 1..Len(HandlerRun) : HandlerRun[i] \in { "cache", "leave_cache" }
    /\ \A t \in CallbackThreads :
          ~Holds(sched.facade, t) /\ ~Holds(sched.lock, t)

\* whoever holds the lock of the cache stands at the end of its with block:
\* not ahead of an engine call, a sleep, a wait, a join or another lock
CacheLockLeftAtOnce ==
    \A t \in LockThreads :
       Holds(sched.patch, t) => Instruction(sched, t) = "leave_cache"

\* a caller holds the lock of the facade for a load or an unload
SlowCaller(c) ==
    Holds(sched.facade, c) /\ sched.op[c] \in { "load", "unload" }

\* the engine's thread has a graph event to hand over
Delivering == Instruction(sched, "engine") = "cache"

DeliveredBesideCaller ==
    \A c \in Callers :
       SlowCaller(c) /\ Delivering =>
          \/ CanStep(sched, "engine")
          \/ \E t \in LockThreads :
                Holds(sched.patch, t) /\ Instruction(sched, t) = "leave_cache"

\* C37: callback handlers take the lock of the graph cache alone, never the
\* lock of the facade (nor of the backend); the lock of the cache is never
\* held across an engine call, a sleep or a wait; so a graph event that
\* arrives while a caller holds the lock of the facade for the whole of a
\* load or an unload is applied without waiting for that caller
C37_CallbacksNotBlockedByCallers ==
    /\ HandlersTakeCacheLockOnly
    /\ CacheLockLeftAtOnce
    /\ DeliveredBesideCaller

\* a caller is in the wait of its load, the facade's lock held, while the
\* engine's thread is inside a handler
C37_Witness ==
    /\ SlowCaller("caller")
    /\ sched.op["caller"] = "load"
    /\ Instruction(sched, "caller") = "wait"
    /\ Holds(sched.patch, "engine")

\* a lock is asked for only by a thread that holds none of the locks that
\* come after it: facade, then backend, then cache
LockOrder ==
    \A t \in LockThreads :
       /\ Instruction(sched, t) = "facade" /\ ~Holds(sched.facade, t) =>
             ~Holds(sched.lock, t) /\ ~Holds(sched.patch, t)
       /\ Instruction(sched, t) = "backend" /\ ~Holds(sched.lock, t) =>
             ~Holds(sched.patch, t)

\* the idle thread asks for no lock its joiner holds
JoinFree ==
    \A t \in LockThreads :
       Instruction(sched, t) = "join" =>
          /\ ~Holds(sched.patch, t)
          /\ Instruction(sched, "idler") \notin { "facade", "backend" }

Busy(t) == sched.at[t] # 0

NoDeadlock ==
    (\E t \in LockThreads : Busy(t)) =>
       \E t \in LockThreads : CanStep(sched, t)

\* a thread waits for a lock another thread holds
Waits(t) == Busy(t) /\ ~CanStep(sched, t)

LocksGivenBack ==
    \A t \in Callers \cup { "timer" } : Busy(t) ~> ~Busy(t)

OnePendingTimerPerNote ==
    \A note \in PlayedNotes : Cardinality(Pending(note)) <= 1

\* every pending timer is the one _note_timers holds for its note
PendingIsRegistered ==
    \A note \in PlayedNotes :
       Pending(note) # { } => note \in backend.note_timers

NoPendingTimer == \A note \in PlayedNotes : Pending(note) = { }

\* the state an unload or a load has just left
AfterUnloadOrLoad == last.op \in { "unload", "load_plugin" }

\* the thread of a timer that has fired stands ahead of host.send_midi_note
FiredTimerSends(t) == sched.pc[t] = "send"

\* C39: at most one note-off timer is pending per note (a play_note or a
\* note_off for the note cancels the earlier one); after unload() or a new
\* load() no note timer is pending; and a timer that has fired sends its
\* note to the engine only while a plugin is loaded, in every interleaving
\* of play_note, timer expiry, unload and load
C39_NoteTimers ==
    /\ OnePendingTimerPerNote
    /\ PendingIsRegistered
    /\ AfterUnloadOrLoad => NoPendingTimer
    /\ \A t \in TimerIds :
          FiredTimerSends(t) =>
             /\ backend.plugin_id # None
             /\ HasPlugin(engine, Get(backend.plugin_id))

\* a timer that has fired found the plugin unloaded and drops its note
\* while the timer of another note is pending
C39_Witness ==
    /\ \E t \in TimerIds :
          /\ sched.timers[t].state = "fired"
          /\ sched.pc[t] = "check"
          /\ backend.plugin_id = None
    /\ last.op = "unload"

(***************************************************************************)
(* describe_ui with a path.                                                *)
(***************************************************************************)
\* the session: nothing, or the plugin, the values of its parameters and
\* the visibility of its editor
Session(b) ==
    IF b.plugin_id = None THEN None
    ELSE Some([ path |-> b.plugin_path,
                values |-> [ i \in 1..Len(b.parameters) |->
                               << b.parameters[i].identifier,
                                  b.parameters[i].value >> ],
                ui_visible |-> b.ui_visible ])

\* the values the engine holds for the plugin of the session
EngineValues(b, e) ==
    IF b.plugin_id = None \/ ~HasPlugin(e, Get(b.plugin_id)) THEN << >>
    ELSE e.plugins[Get(b.plugin_id) + 1].values

\* the step is a describe_ui
Described == last'.op = "describe_ui"

SessionRestored ==
    /\ Session(backend') = Session(backend)
    /\ EngineValues(backend', engine') = EngineValues(backend, engine)

\* C40: describe(path) for a plugin file restores the session it found:
\* nothing loaded before, nothing loaded afterwards; plugin P loaded before,
\* P loaded afterwards with the same parameter values and the same
\* visibility of its editor, also when the load of the described plugin
\* fails
C40_DescribeRestoresSession ==
    [][ Described => SessionRestored ]_vars

=============================================================================
